---------------------------- MODULE Spec2Model ----------------------------
(***************************************************************************)
(* A model of the trading bots of this repository:                         *)
(*   src/tradebot.py   (variant "tradebot")                                *)
(*   src/tradebot2.py  (variant "tradebot2": adds the CSV signal journal   *)
(*                      and another execute_sell_order)                    *)
(*   src/tradebot_2.py (run_bot, the ccxt EMA/RSI bot)                     *)
(*                                                                         *)
(* Numbers.  Quantities, prices, balances and amounts are fixed-point      *)
(* integers in units of 1/Scale (Scale = 1000, so 12 is 0.012).  The       *)
(* model's inputs are drawn from values that are exactly representable on  *)
(* this grid, and from step sizes whose rounding ties (x.5) are exact in   *)
(* binary floating point as well, so the exact arithmetic below and the    *)
(* floats of the code agree on them.  Times are whole seconds.             *)
(*                                                                         *)
(* Python values returned by the exchange client are records with a        *)
(* "kind" field; None is [kind |-> "None"].                                *)
(***************************************************************************)
EXTENDS Integers, Sequences, FiniteSets, TLC

VARIABLES
    \* ---- the trading loop of tradebot.py / tradebot2.py (Spec)
    variant,         \* which script runs: "tradebot" or "tradebot2"
    pc,              \* "trade": inside trade(); "sleep": in time.sleep(60);
                     \* "terminated": an exception left the main loop;
                     \* "hung": stuck inside 10 ** precision (round_down)
    idx,             \* 1-based index into symbols of the symbol trade() handles next
    cycle,           \* number of the current call of trade(), from 1
    cycle_start,     \* the time at which the current call of trade() began
    now,             \* time.time(), whole seconds
    last_buy_time,   \* the dict last_buy_time
    symbol_precision_cache,  \* the dict symbol_precision_cache
    signal_file,     \* trade_signals.csv (tradebot2.py)
    submitted,       \* the order_market_buy / order_market_sell calls made while
                     \* handling the latest symbol (history of the exchange side)
    buy_cycle_starts, \* per symbol: the start times of the cycles in which
                     \* order_market_buy was called for it (history)
    last_failure,    \* which step of the latest iteration failed: "fetch"
                     \* (get_historical_data returned None), "journal" or
                     \* "plot" (these raised into trade()), or "none" (history)
    info_log,        \* the client.get_symbol_info calls of the latest
                     \* iteration (history), see InfoLog
    \* ---- safe_api_call taken alone (SpecRetry)
    call_behaviour,  \* what the wrapped call does on its 1st, 2nd, ... attempt
    call_result,     \* what safe_api_call gave back, or NotCalled
    \* ---- the buy quantity taken alone (SpecQuant)
    q_in,            \* usdt_amount, price and step_size of one computation
    q_out,           \* the quantity computed from them, or NotComputed
    \* ---- run_bot of tradebot_2.py (SpecBot)
    stop_loss_price, \* run_bot's local of that name; unset before the first buy signal
    take_profit_price, \* run_bot's local of that name
    bot_entry,       \* the price of the position the bot holds: that of the latest
                     \* buy order the exchange took, unset again once a sell
                     \* order was taken (history)
    bot_last,        \* what the latest iteration of run_bot saw and did (history)
    bot_iterations,  \* iterations of run_bot's while loop so far
    \* ---- execute_sell_order taken alone (SpecSell)
    sell_in,         \* the script, the clock, the quantity and the exchange's answers
    sell_out,        \* what the call did, or NotSold
    \* ---- check_buy_signal / check_sell_signal taken alone (SpecSignal)
    sig_in,          \* the last row of the data frame
    sig_out,         \* the two signals, or NotEvaluated
    \* ---- the indicators of a price series (SpecIndicators)
    closes,          \* df['close'], oldest bar first, in whole price units
    ind_out,         \* the last row after the indicators and the signals
                     \* computed from it, or NotEvaluated
    \* ---- the signal journal of tradebot2.py (SpecJournal)
    j_file,          \* trade_signals.csv
    j_saved,         \* the tuples of the save_trade_signal calls that returned (history)
    j_loaded,        \* what the latest load_trade_signals returned, or NotLoaded
    \* ---- threads calling save_trade_signal at once (SpecWriters)
    wr_pc,           \* per thread: its position inside save_trade_signal
    wr_lock,         \* file_lock: the thread that holds it, or 0
    wr_seen,         \* per thread: its local file_exists
    wr_buffer,       \* per thread: the rows written to its open file object
    wr_file,         \* trade_signals.csv
    wr_completed,    \* the rows of the calls that returned, in that order (history)
    wr_calls,        \* per thread: the calls it has begun
    \* ---- a shutdown signal during the sleeps of tradebot.py (SpecCancel)
    c_pc,            \* "call": inside the wrapped call; "backoff": in the
                     \* time.sleep of safe_api_call; "cycle_sleep": in the
                     \* time.sleep(60) of the main loop; "exited"
    c_site,          \* which safe_api_call runs: "klines" (from trade()) or
                     \* "order" (inside the try of execute_buy_order)
    c_i,             \* the loop index i of safe_api_call
    c_left,          \* seconds left of the current sleep
    c_clock,         \* seconds since the process started
    c_cycles,        \* calls of trade() begun so far
    c_signal,        \* the signal that arrived, when and where (history)
    c_after,         \* attempts and cycles begun after the signal (history)
    \* ---- execute_buy_order taken alone (SpecBuy)
    buy_in,          \* the script and the exchange's answers
    buy_out,         \* what the call did, or NotBought
    \* ---- the start-up of the three scripts (SpecStartup)
    st_in,           \* the script and the two environment variables
    st_pc,           \* "start", "client" (the client exists), "trading", "exited"
    st_log,          \* exit status, client creations and API calls so far (history)
    \* ---- save_trade_signal taken alone (SpecSave)
    save_in,         \* the arguments, the journal file before and the file system
    save_out         \* what the call did, or NotSaved

loop_vars == <<variant, pc, idx, cycle, cycle_start, now, last_buy_time,
               symbol_precision_cache, signal_file, submitted, buy_cycle_starts,
               last_failure, info_log>>

retry_vars == <<call_behaviour, call_result>>

quant_vars == <<q_in, q_out>>

bot_vars == <<stop_loss_price, take_profit_price, bot_entry, bot_last, bot_iterations>>

sell_vars == <<sell_in, sell_out>>

sig_vars == <<sig_in, sig_out>>

ind_vars == <<closes, ind_out>>

journal_vars == <<j_file, j_saved, j_loaded>>

writer_vars == <<wr_pc, wr_lock, wr_seen, wr_buffer, wr_file, wr_completed, wr_calls>>

cancel_vars == <<c_pc, c_site, c_i, c_left, c_clock, c_cycles, c_signal, c_after>>

buy_vars == <<buy_in, buy_out>>

startup_vars == <<st_in, st_pc, st_log>>

save_vars == <<save_in, save_out>>

more_vars == <<journal_vars, writer_vars, cancel_vars, buy_vars, startup_vars, save_vars>>

unit_vars == <<sell_vars, sig_vars, ind_vars, more_vars>>

vars == <<variant, pc, idx, cycle, cycle_start, now, last_buy_time,
          symbol_precision_cache, signal_file, submitted, buy_cycle_starts,
          last_failure, info_log,
          call_behaviour, call_result, q_in, q_out,
          stop_loss_price, take_profit_price, bot_entry, bot_last, bot_iterations,
          sell_in, sell_out, sig_in, sig_out, closes, ind_out,
          j_file, j_saved, j_loaded,
          wr_pc, wr_lock, wr_seen, wr_buffer, wr_file, wr_completed, wr_calls,
          c_pc, c_site, c_i, c_left, c_clock, c_cycles, c_signal, c_after,
          buy_in, buy_out, st_in, st_pc, st_log, save_in, save_out>>

-----------------------------------------------------------------------------
(* Python values *)

None == [kind |-> "None"]

\* An order / balance / symbol-info response of the exchange client.
OrderResponse == [kind |-> "order"]

\* A dict the client returned that has no entries: falsy in Python.
EmptyDict == [kind |-> "empty"]

\* Python truthiness of a value: None and empty containers are falsy.
Truthy(v) == v.kind \notin {"None", "empty"}

-----------------------------------------------------------------------------
(* safe_api_call: src/tradebot.py 43-52, src/tradebot2.py 93-102 *)

\* for i in range(5)
RetryLimit == 5

\* The exceptions the exchange client raises (python-binance's API exception,
\* the HTTP library's connection and timeout errors): all derive from Exception.
ClientExceptions == {"BinanceAPIException", "ConnectionError"}

\* One attempt of the wrapped call: it raises exc, or returns value.
Raises(exc) == [raises |-> TRUE, exc |-> exc, value |-> None]
Returns(v) == [raises |-> FALSE, exc |-> "", value |-> v]

\* A handler that caught the API exception only (not the code's).
CaughtNarrow(exc) == exc = "BinanceAPIException"
\* A handler that catches whatever is raised, like a bare except (not the code's).
CaughtAnything(exc) == TRUE
\* except Exception as e: every exception of the client is caught.
Caught(exc) == exc \in ClientExceptions

\* A backoff counted from the 1-based attempt number (not the code's).
BackoffDelayShifted(i) == 2 ^ (i + 1)
\* time.sleep(2 ** i), i the 0-based index of the failed attempt.
BackoffDelay(i) == 2 ^ i

RECURSIVE SumSeq(_)
SumSeq(s) == IF s = <<>> THEN 0 ELSE Head(s) + SumSeq(Tail(s))

\* A loop that takes a falsy return value for a failure and tries again
\* (not the code's).
RECURSIVE safe_api_call_loop_until_truthy(_, _, _)
safe_api_call_loop_until_truthy(i, behaviour, sleeps) ==
    IF i >= RetryLimit
    THEN [result |-> None, raised |-> FALSE, exc |-> "",
          attempts |-> i, sleeps |-> sleeps]
    ELSE LET attempt == behaviour[i + 1] IN
         IF ~attempt.raises /\ Truthy(attempt.value)
         THEN [result |-> attempt.value, raised |-> FALSE, exc |-> "",
               attempts |-> i + 1, sleeps |-> sleeps]
         ELSE safe_api_call_loop_until_truthy(i + 1, behaviour,
                                              Append(sleeps, BackoffDelay(i)))

\* The loop of safe_api_call from iteration i on. behaviour[k] is what the
\* wrapped call does on its k-th invocation; sleeps are the backoff sleeps so far.
\* The result records what the caller sees (result, or raised with the
\* exception that escaped), the invocations made and the sleeps slept.
RECURSIVE safe_api_call_loop(_, _, _)
safe_api_call_loop(i, behaviour, sleeps) ==
    IF i >= RetryLimit
    THEN \* logging.error("API call failed after multiple retries."); return None
         [result |-> None, raised |-> FALSE, exc |-> "",
          attempts |-> i, sleeps |-> sleeps]
    ELSE LET attempt == behaviour[i + 1] IN
         IF ~attempt.raises
         THEN \* return func(*args, **kwargs)
              [result |-> attempt.value, raised |-> FALSE, exc |-> "",
               attempts |-> i + 1, sleeps |-> sleeps]
         ELSE IF Caught(attempt.exc)
         THEN \* logging.warning(...); time.sleep(2 ** i)
              safe_api_call_loop(i + 1, behaviour, Append(sleeps, BackoffDelay(i)))
         ELSE [result |-> None, raised |-> TRUE, exc |-> attempt.exc,
               attempts |-> i + 1, sleeps |-> sleeps]

safe_api_call(behaviour) == safe_api_call_loop(0, behaviour, <<>>)

\* Total time safe_api_call spent in time.sleep.
Slept(r) == SumSeq(r.sleeps)

-----------------------------------------------------------------------------
(* The behaviours of a wrapped call *)

\* The wrapped call is never invoked more often than the loop allows; one
\* more outcome than that is drawn so that an extra invocation would show.
BehaviourLen == RetryLimit + 1

AttemptOutcomes ==
    {Raises(e) : e \in ClientExceptions}
        \cup {Returns(v) : v \in {OrderResponse, None, EmptyDict}}

NotCalled == [result |-> None, raised |-> FALSE, exc |-> "",
              attempts |-> 0, sleeps |-> <<>>]

-----------------------------------------------------------------------------
(* Numbers *)

\* Fixed-point scale: a quantity, price or amount n stands for n / Scale.
Scale == 10 ^ 3

RECURSIVE GCD(_, _)
GCD(a, b) == IF b = 0 THEN a ELSE GCD(b, a % b)

RECURSIVE IsPowerOfTwo(_)
IsPowerOfTwo(n) == IF n = 1 THEN TRUE ELSE IF n % 2 # 0 THEN FALSE ELSE IsPowerOfTwo(n \div 2)

\* The largest d with b * 10^d <= a, for a >= b > 0: floor(log10(a / b)).
RECURSIVE FloorLog10(_, _)
FloorLog10(a, b) == IF 10 * b > a THEN 0 ELSE 1 + FloorLog10(a, 10 * b)

\* int(math.log10(step_size)): int() truncates toward zero, so a step below 1
\* gives -floor(log10(1 / step)).
IntLog10(step_size) ==
    IF step_size >= Scale
    THEN FloorLog10(step_size, Scale)
    ELSE 0 - FloorLog10(Scale, step_size)

Abs(n) == IF n < 0 THEN 0 - n ELSE n

\* Python's round(x, ndigits) on a float: to the nearest multiple of
\* 10^-ndigits, a tie to the even one.
Round(x, ndigits) ==
    IF 10 ^ ndigits >= Scale
    THEN x
    ELSE LET unit == Scale \div (10 ^ ndigits)
             q == x \div unit
             r == x % unit
         IN  IF 2 * r < unit THEN q * unit
             ELSE IF 2 * r > unit THEN (q + 1) * unit
             ELSE IF q % 2 = 0 THEN q * unit ELSE (q + 1) * unit

\* quantity % step_size for quantity = amount / price, as a multiple count:
\* quantity - (quantity % step_size) is FloorSteps * step_size.
FloorSteps(amount, price, step_size) == (amount * Scale) \div (price * step_size)

\* src/tradebot.py 174, 183-184: the quantity execute_buy_order orders.
\*   quantity = usdt_amount / price
\*   precision = abs(int(math.log10(step_size)))
\*   quantity = round(quantity - (quantity % step_size), precision)
BuyQuantity(amount, price, step_size) ==
    LET precision == Abs(IntLog10(step_size))
    IN  Round(FloorSteps(amount, price, step_size) * step_size, precision)

\* abs(step_size).as_integer_ratio()[1]: the denominator of the float in lowest
\* terms. A step that is a multiple of a power of 1/2 has a small one; any
\* other step (0.1, 0.01, 0.001, ...) is a binary fraction of about 2^-53
\* resolution, whose denominator is a power of two beyond 2^50 (0.1 gives
\* 2^55). HugeDenominator stands for it within the model's 32-bit integers.
HugeDenominator == 2 ^ 30
IntegerRatioDenominator(step_size) ==
    LET den == Scale \div GCD(step_size, Scale)
    IN  IF IsPowerOfTwo(den) THEN den ELSE HugeDenominator

\* 10 ** precision is computed at once for a small exponent; for a huge one
\* the interpreter works on a number of that many digits.
PowReturns(precision) == precision <= 2 ^ 20

\* src/tradebot.py 202-205: math.floor(quantity * factor) / factor, factor = 10 ** precision
round_down(quantity, precision) ==
    IF 10 ^ precision >= Scale
    THEN quantity
    ELSE LET unit == Scale \div (10 ^ precision) IN (quantity \div unit) * unit

\* src/tradebot2.py 273: math.floor(quantity / step_size) * step_size
SellQuantity(quantity, step_size) == (quantity \div step_size) * step_size

-----------------------------------------------------------------------------
(* Program constants and the exchange's answers *)

\* src/tradebot.py 32: the first two of the seven configured symbols.
symbols == <<"ADAUSDT", "SOLUSDT">>

SymbolSet == {symbols[i] : i \in 1..Len(symbols)}

\* src/tradebot.py 33
usdt_amount == 20 * Scale

\* src/tradebot.py 37
cooldown_period == 3600

\* src/tradebot.py 299: time.sleep(60)
CycleSleep == 60

\* client.get_asset_balance(...): {'asset': ..., 'free': ..., 'locked': ...}
Balance(free) == [kind |-> "balance", free |-> free]

\* 'free' in balance
HasFree(v) == v.kind = "balance"

\* client.get_symbol_ticker(symbol=...): {'symbol': ..., 'price': ...}
Ticker(price) == [kind |-> "ticker", price |-> price]

\* client.get_symbol_info(symbol) with a LOT_SIZE filter among info['filters'],
\* and one without.
SymbolInfo(minQty, stepSize) ==
    [kind |-> "symbol_info", lot_size |-> TRUE, minQty |-> minQty, stepSize |-> stepSize]
SymbolInfoNoLotSize ==
    [kind |-> "symbol_info", lot_size |-> FALSE, minQty |-> 0, stepSize |-> 0]

\* A wrapped call that raises on its first k invocations and returns v after.
FailThen(k, v) ==
    [j \in 1..BehaviourLen |->
        IF j <= k THEN Raises("BinanceAPIException") ELSE Returns(v)]

\* The state an operation of the bot reads and writes, as one record:
\* the clock, the precision cache, the journal file, the order calls made for
\* the symbol at hand, and how the operation ended (raised: an exception
\* propagates to the caller; hung: it does not return).
World(t, cache, file) ==
    [now |-> t, cache |-> cache, file |-> file, submitted |-> <<>>,
     raised |-> FALSE, hung |-> FALSE,
     \* what the iteration did on the way (history): the step that failed,
     \* the number of client.get_symbol_info invocations, and whether a
     \* lookup of the lot filter gave up after RetryLimit failed attempts
     failure |-> "none", info_calls |-> 0, info_exhausted |-> FALSE]

\* One call of client.order_market_buy / order_market_sell through
\* safe_api_call, as the exchange sees it. lot is the symbol's LOT_SIZE filter.
OrderCall(symbol, side, quantity, lot, r) ==
    [symbol |-> symbol, side |-> side, quantity |-> quantity,
     min_qty |-> lot.min_qty, step_size |-> lot.step_size,
     attempts |-> r.attempts, accepted |-> Truthy(r.result)]

-----------------------------------------------------------------------------
(* get_symbol_precision: src/tradebot.py 127-139, src/tradebot2.py 177-189 *)

\* Every attempt safe_api_call makes of this call raises.
Exhausted(behaviour) == \A j \in 1..RetryLimit : behaviour[j].raises

\* A lookup that asks the exchange again for a symbol it holds and replaces
\* the entry (not the code's).
get_symbol_precision_refreshing(cache, symbol, info_behaviour) ==
    LET r == safe_api_call(info_behaviour) IN
    IF Truthy(r.result) /\ r.result.lot_size
    THEN [found |-> TRUE, min_qty |-> r.result.minQty,
          step_size |-> r.result.stepSize,
          cache |-> (symbol :> [min_qty |-> r.result.minQty,
                                step_size |-> r.result.stepSize]) @@ cache,
          slept |-> Slept(r), lookups |-> r.attempts, exhausted |-> FALSE]
    ELSE [found |-> FALSE, min_qty |-> 0, step_size |-> 0, cache |-> cache,
          slept |-> Slept(r), lookups |-> r.attempts,
          exhausted |-> Exhausted(info_behaviour)]

\* A lookup that remembers its failure as an entry of the cache (not the code's).
get_symbol_precision_caching_failure(cache, symbol, info_behaviour) ==
    IF symbol \in DOMAIN cache
    THEN [found |-> cache[symbol].step_size > 0, min_qty |-> cache[symbol].min_qty,
          step_size |-> cache[symbol].step_size, cache |-> cache, slept |-> 0,
          lookups |-> 0, exhausted |-> FALSE]
    ELSE LET r == safe_api_call(info_behaviour) IN
         IF Truthy(r.result) /\ r.result.lot_size
         THEN [found |-> TRUE, min_qty |-> r.result.minQty,
               step_size |-> r.result.stepSize,
               cache |-> cache @@ (symbol :>
                   [min_qty |-> r.result.minQty, step_size |-> r.result.stepSize]),
               slept |-> Slept(r), lookups |-> r.attempts, exhausted |-> FALSE]
         ELSE [found |-> FALSE, min_qty |-> 0, step_size |-> 0,
               cache |-> cache @@ (symbol :> [min_qty |-> 0, step_size |-> 0]),
               slept |-> Slept(r), lookups |-> r.attempts,
               exhausted |-> Exhausted(info_behaviour)]

get_symbol_precision(cache, symbol, info_behaviour) ==
    IF symbol \in DOMAIN cache
    THEN \* return symbol_precision_cache[symbol]
         [found |-> TRUE, min_qty |-> cache[symbol].min_qty,
          step_size |-> cache[symbol].step_size, cache |-> cache, slept |-> 0,
          lookups |-> 0, exhausted |-> FALSE]
    ELSE LET r == safe_api_call(info_behaviour) IN
         IF Truthy(r.result) /\ r.result.lot_size
         THEN [found |-> TRUE, min_qty |-> r.result.minQty,
               step_size |-> r.result.stepSize,
               cache |-> cache @@ (symbol :>
                   [min_qty |-> r.result.minQty, step_size |-> r.result.stepSize]),
               slept |-> Slept(r), lookups |-> r.attempts, exhausted |-> FALSE]
         ELSE \* return None, None
              [found |-> FALSE, min_qty |-> 0, step_size |-> 0, cache |-> cache,
               slept |-> Slept(r), lookups |-> r.attempts,
               exhausted |-> Exhausted(info_behaviour)]

-----------------------------------------------------------------------------
(* execute_buy_order: src/tradebot.py 144-200, src/tradebot2.py 194-250 *)

\* env: what the exchange does during this call.
\*   env.balance  behaviour of client.get_asset_balance(asset="USDT")
\*   env.ticker   outcome of client.get_symbol_ticker (not wrapped)
\*   env.info     behaviour of client.get_symbol_info
\*   env.order    behaviour of client.order_market_buy
\* A buy that orders without asking for the balance (not the code's).
execute_buy_order_unchecked(w, lbt, symbol, amount, env) ==
    LET order == safe_api_call(env.order) IN
    [w EXCEPT !.now = @ + Slept(order),
              !.submitted = Append(@, OrderCall(symbol, "BUY", amount,
                                                [min_qty |-> 0, step_size |-> 1], order))]
execute_buy_order(w, lbt, symbol, amount, env) ==
    LET current_time == w.now IN
    IF current_time - lbt[symbol] < cooldown_period
    THEN w
    ELSE
    LET bal == safe_api_call(env.balance)
        w1 == [w EXCEPT !.now = @ + Slept(bal)]
    IN
    IF ~Truthy(bal.result) \/ ~HasFree(bal.result)
    THEN w1
    ELSE IF bal.result.free < amount
    THEN w1
    ELSE IF env.ticker.raises
    THEN w1     \* caught by the except of line 199
    ELSE
    LET price == env.ticker.value.price
        prec == get_symbol_precision(w1.cache, symbol, env.info)
        w2 == [w1 EXCEPT !.now = @ + prec.slept, !.cache = prec.cache,
                         !.info_calls = @ + prec.lookups,
                         !.info_exhausted = @ \/ prec.exhausted]
    IN
    IF ~prec.found
    THEN w2
    ELSE
    LET quantity == BuyQuantity(amount, price, prec.step_size) IN
    IF quantity < prec.min_qty
    THEN w2
    ELSE
    LET order == safe_api_call(env.order) IN
    [w2 EXCEPT !.now = @ + Slept(order),
               !.submitted = Append(@, OrderCall(symbol, "BUY", quantity, prec, order))]

-----------------------------------------------------------------------------
(* get_symbol_balance: src/tradebot.py 54-57 *)

get_symbol_balance(balance_behaviour) ==
    LET r == safe_api_call(balance_behaviour) IN
    [value |-> IF Truthy(r.result) /\ HasFree(r.result) THEN r.result.free ELSE 0,
     slept |-> Slept(r)]

-----------------------------------------------------------------------------
(* execute_sell_order of tradebot.py: src/tradebot.py 210-260 *)

\* env.balance2 behaviour of the second client.get_asset_balance
\* env.info     behaviour of client.get_symbol_info
\* env.pow      what 10 ** precision does when precision is huge:
\*              "MemoryError" (raised, caught at line 259) or "hang"
\* env.order    behaviour of client.order_market_sell
execute_sell_order_1(w, lbt, symbol, quantity, env) ==
    LET current_time == w.now IN
    IF current_time - lbt[symbol] < cooldown_period
    THEN w
    ELSE
    LET bal == safe_api_call(env.balance2)
        w1 == [w EXCEPT !.now = @ + Slept(bal)]
    IN
    IF ~Truthy(bal.result) \/ ~HasFree(bal.result)
    THEN w1
    ELSE IF bal.result.free < quantity
    THEN w1
    ELSE
    LET prec == get_symbol_precision(w1.cache, symbol, env.info)
        w2 == [w1 EXCEPT !.now = @ + prec.slept, !.cache = prec.cache,
                         !.info_calls = @ + prec.lookups,
                         !.info_exhausted = @ \/ prec.exhausted]
    IN
    IF ~prec.found
    THEN w2
    ELSE
    LET precision == IntegerRatioDenominator(prec.step_size) IN
    IF ~PowReturns(precision)
    THEN IF env.pow = "hang" THEN [w2 EXCEPT !.hung = TRUE] ELSE w2
    ELSE
    \* adj_quantity = round_down(quantity, precision) is logged and not used
    IF quantity < prec.min_qty
    THEN w2
    ELSE
    LET order == safe_api_call(env.order) IN
    [w2 EXCEPT !.now = @ + Slept(order),
               !.submitted = Append(@, OrderCall(symbol, "SELL", quantity, prec, order))]

-----------------------------------------------------------------------------
(* get_step_size, execute_sell_order of tradebot2.py: src/tradebot2.py 255-288 *)

get_step_size(info_behaviour) ==
    LET r == safe_api_call(info_behaviour) IN
    IF Truthy(r.result) /\ r.result.lot_size
    THEN [found |-> TRUE, step_size |-> r.result.stepSize,
          min_qty |-> r.result.minQty, slept |-> Slept(r),
          lookups |-> r.attempts, exhausted |-> FALSE]
    ELSE [found |-> FALSE, step_size |-> 0, min_qty |-> 0, slept |-> Slept(r),
          lookups |-> r.attempts, exhausted |-> Exhausted(info_behaviour)]

execute_sell_order_2(w, symbol, quantity, env) ==
    LET step == get_step_size(env.info)
        w1 == [w EXCEPT !.now = @ + step.slept,
                        !.info_calls = @ + step.lookups,
                        !.info_exhausted = @ \/ step.exhausted]
    IN
    IF ~step.found
    THEN w1
    ELSE
    LET adjusted == SellQuantity(quantity, step.step_size) IN
    IF adjusted = 0
    THEN w1
    ELSE
    LET order == safe_api_call(env.order) IN
    [w1 EXCEPT !.now = @ + Slept(order),
               !.submitted = Append(@, OrderCall(symbol, "SELL", adjusted, step, order))]

-----------------------------------------------------------------------------
(* Market data and signals: src/tradebot.py 59-125 *)

\* A float of the data frame: the number v / d (d > 0), or NaN (a rolling
\* window that is not full yet, or 0 / 0). Every comparison with NaN is False.
Rat(v, d) == [nan |-> FALSE, v |-> v, d |-> d]
Num(v) == Rat(v, 1)
NaN == [nan |-> TRUE, v |-> 0, d |-> 1]
Lt(a, b) == ~a.nan /\ ~b.nan /\ a.v * b.d < b.v * a.d
Gt(a, b) == ~a.nan /\ ~b.nan /\ a.v * b.d > b.v * a.d

\* src/tradebot.py 99 and 118: the RSI thresholds of the two signals.
rsi_buy_threshold == 40
rsi_sell_threshold == 60

\* src/tradebot.py 61: '1h' klines; df.index[-1] is the open time of the hour.
BarSeconds == 3600
BarOpenTime(t) == (t \div BarSeconds) * BarSeconds

\* A pandas Timestamp: always truthy.
Timestamp(t) == [kind |-> "Timestamp", t |-> t]

\* What client.get_historical_klines returned, with the last row of the data
\* frame after calculate_bollinger_bands and calculate_rsi: close in units of
\* 1/Scale, the bands likewise, RSI in points.
Klines(close, lower_band, upper_band, rsi) ==
    [kind |-> "klines", close |-> close, lower_band |-> lower_band,
     upper_band |-> upper_band, RSI |-> rsi]

\* A buy signal that counts a close on the band and an RSI on the threshold
\* (not the code's).
check_buy_signal_inclusive(df) ==
    ~Gt(df.close, df.lower_band) /\ ~Gt(df.RSI, Num(rsi_buy_threshold))
\* src/tradebot.py 99: close_price < lower_band and rsi_value < 40
check_buy_signal(df) ==
    Lt(df.close, df.lower_band) /\ Lt(df.RSI, Num(rsi_buy_threshold))

\* A sell signal with the comparisons of the buy signal (not the code's).
check_sell_signal_copied(df) ==
    Lt(df.close, df.upper_band) /\ Lt(df.RSI, Num(rsi_sell_threshold))
\* src/tradebot.py 118: close_price > upper_band and rsi_value > 60
check_sell_signal(df) ==
    Gt(df.close, df.upper_band) /\ Gt(df.RSI, Num(rsi_sell_threshold))

-----------------------------------------------------------------------------
(* save_trade_signal: src/tradebot2.py 52-91 *)

HeaderLine == [kind |-> "header"]
RowLine(timestamp, symbol, signal_type, price) ==
    [kind |-> "row", timestamp |-> timestamp, symbol |-> symbol,
     signal_type |-> signal_type, price |-> price]

\* trade_signals.csv before the first write.
NoFile == [exists |-> FALSE, lines |-> <<>>]

\* A save that tests price against None only, so that a price of 0 is
\* written (not the code's).
save_trade_signal_zero_price(w, symbol, signal_type, price, timestamp, write) ==
    IF ~(symbol # "" /\ signal_type # "" /\ Truthy(timestamp)) \/ write # "ok"
    THEN [w EXCEPT !.raised = TRUE, !.failure = "journal"]
    ELSE LET row == RowLine(timestamp, symbol, signal_type, price) IN
         [w EXCEPT !.file =
             [exists |-> TRUE,
              lines |-> IF w.file.exists
                        THEN Append(w.file.lines, row)
                        ELSE w.file.lines \o <<HeaderLine, row>>]]

\* A save that opens the file with mode 'w' (not the code's).
save_trade_signal_truncating(w, symbol, signal_type, price, timestamp, write) ==
    IF ~(symbol # "" /\ signal_type # "" /\ price.v # 0 /\ Truthy(timestamp)) \/ write # "ok"
    THEN [w EXCEPT !.raised = TRUE, !.failure = "journal"]
    ELSE LET row == RowLine(timestamp, symbol, signal_type, price) IN
         [w EXCEPT !.file =
             [exists |-> TRUE,
              lines |-> IF w.file.exists THEN <<row>> ELSE <<HeaderLine, row>>]]
\* write: what the file system does at open(signal_file, mode='a'):
\* "ok", or "OSError". The function logs and re-raises every exception.
save_trade_signal(w, symbol, signal_type, price, timestamp, write) ==
    IF ~(symbol # "" /\ signal_type # "" /\ price.v # 0 /\ Truthy(timestamp))
    THEN [w EXCEPT !.raised = TRUE, !.failure = "journal"]  \* ValueError, re-raised at line 91
    ELSE IF write # "ok"
    THEN [w EXCEPT !.raised = TRUE, !.failure = "journal"]
    ELSE LET file_exists == w.file.exists
             row == RowLine(timestamp, symbol, signal_type, price)
         IN  [w EXCEPT !.file =
                 [exists |-> TRUE,
                  lines |-> IF file_exists
                            THEN Append(w.file.lines, row)
                            ELSE w.file.lines \o <<HeaderLine, row>>]]

-----------------------------------------------------------------------------
(* trade(), one iteration of its for loop:                                 *)
(* src/tradebot.py 282-294, src/tradebot2.py 333-351                       *)

\* env: what the exchange and the file system do during this iteration.
\*   env.klines    behaviour of client.get_historical_klines
\*   env.balance, env.ticker, env.info, env.order: see execute_buy_order
\*   env.balance1  behaviour of get_symbol_balance's client.get_asset_balance
\*   env.balance2, env.pow: see execute_sell_order_1
\*   env.sell_order behaviour of client.order_market_sell
\*   env.journal   outcome of the file write of save_trade_signal
\*   env.plot      outcome of plot_trading_signals: "ok" or "raise"
BuyStep(w, v, lbt, symbol, df, bar, env) ==
    LET bought == execute_buy_order(w, lbt, symbol, usdt_amount, env) IN
    IF v = "tradebot2"
    THEN \* price = df.iloc[-1]['close']; save_trade_signal(symbol, "BUY", price, df.index[-1])
         save_trade_signal(bought, symbol, "BUY", df.close, bar, env.journal)
    ELSE bought

SellStep(w, v, lbt, symbol, df, bar, env) ==
    LET balance == get_symbol_balance(env.balance1)
        w1 == [w EXCEPT !.now = @ + balance.slept]
        sell_env == [balance2 |-> env.balance2, info |-> env.info,
                     pow |-> env.pow, order |-> env.sell_order]
    IN
    IF v = "tradebot2"
    THEN save_trade_signal(execute_sell_order_2(w1, symbol, balance.value, sell_env),
                           symbol, "SELL", df.close, bar, env.journal)
    ELSE execute_sell_order_1(w1, lbt, symbol, balance.value, sell_env)

\* if buy_signal: ...
BuyPart(w, v, lbt, symbol, df, bar, env) ==
    IF check_buy_signal(df) THEN BuyStep(w, v, lbt, symbol, df, bar, env) ELSE w

\* if sell_signal: ... (not reached when the buy part raised)
SellPart(w, v, lbt, symbol, df, bar, env) ==
    IF w.raised \/ w.hung THEN w
    ELSE IF check_sell_signal(df) THEN SellStep(w, v, lbt, symbol, df, bar, env)
    ELSE w

\* plot_trading_signals(symbol, df, ...): it writes a PNG, which can fail.
PlotPart(w, env) ==
    IF w.raised \/ w.hung THEN w
    ELSE IF env.plot = "ok" THEN w
    ELSE [w EXCEPT !.raised = TRUE, !.failure = "plot"]

\* time.sleep and the waits inside the calls move the clock.
Advance(w, seconds) == [w EXCEPT !.now = @ + seconds]

\* An iteration without `if df is None: continue`: the None is indexed and
\* the TypeError leaves trade() (not the code's).
trade_symbol_unguarded(w, v, lbt, symbol, env) ==
    LET data == safe_api_call(env.klines) IN
    IF ~Truthy(data.result)
    THEN [Advance(w, Slept(data)) EXCEPT !.failure = "fetch", !.raised = TRUE]
    ELSE LET df == data.result
             bar == Timestamp(BarOpenTime(w.now + Slept(data)))
         IN  PlotPart(
                 SellPart(
                     BuyPart(Advance(w, Slept(data)), v, lbt, symbol, df, bar, env),
                     v, lbt, symbol, df, bar, env),
                 env)
trade_symbol(w, v, lbt, symbol, env) ==
    LET data == safe_api_call(env.klines) IN
    IF ~Truthy(data.result)
    THEN \* get_historical_data returned None: continue
         [Advance(w, Slept(data)) EXCEPT !.failure = "fetch"]
    ELSE LET df == data.result
             bar == Timestamp(BarOpenTime(w.now + Slept(data)))    \* df.index[-1]
         IN  PlotPart(
                 SellPart(
                     BuyPart(Advance(w, Slept(data)), v, lbt, symbol, df, bar, env),
                     v, lbt, symbol, df, bar, env),
                 env)

-----------------------------------------------------------------------------
(* Each specification below runs one part of the repository; the variables  *)
(* of the other parts rest at these values.                                 *)

\* The get_symbol_info calls of one iteration of trade(): the symbol, whether
\* symbol_precision_cache held it when the iteration began, the number of
\* invocations of client.get_symbol_info, and whether a lookup gave up
\* (safe_api_call returned None after RetryLimit failed attempts).
\* gave_up: the symbols for which a lookup has given up so far.
InfoLog(symbol, cached_before, calls, exhausted, gave_up) ==
    [symbol |-> symbol, cached_before |-> cached_before, calls |-> calls,
     exhausted |-> exhausted, gave_up |-> gave_up]
NoInfoLog == InfoLog("", FALSE, 0, FALSE, {})

NotComputed == [computed |-> FALSE, quantity |-> 0]

Unset == [set |-> FALSE, v |-> 0]

NoIteration == [ran |-> FALSE]

LoopIdle ==
    /\ variant = "none"
    /\ pc = "idle"
    /\ idx = 1
    /\ cycle = 1
    /\ cycle_start = 0
    /\ now = 0
    /\ last_buy_time = <<>>
    /\ symbol_precision_cache = <<>>
    /\ signal_file = NoFile
    /\ submitted = <<>>
    /\ buy_cycle_starts = <<>>
    /\ last_failure = "none"
    /\ info_log = NoInfoLog

RetryIdle ==
    /\ call_behaviour = FailThen(0, None)
    /\ call_result = NotCalled

QuantIdle ==
    /\ q_in = [amount |-> 0, price |-> 1, step_size |-> 1]
    /\ q_out = NotComputed

BotIdle ==
    /\ stop_loss_price = Unset
    /\ take_profit_price = Unset
    /\ bot_entry = Unset
    /\ bot_last = NoIteration
    /\ bot_iterations = 0

NotSold == [done |-> FALSE, submitted |-> <<>>, hung |-> FALSE]

NotEvaluated == [evaluated |-> FALSE]

SellIdle ==
    /\ sell_in = [variant |-> "none"]
    /\ sell_out = NotSold

SigIdle ==
    /\ sig_in = Klines(Num(0), NaN, NaN, NaN)
    /\ sig_out = NotEvaluated

IndIdle ==
    /\ closes = <<>>
    /\ ind_out = NotEvaluated

NotLoaded == [done |-> FALSE]

JournalIdle ==
    /\ j_file = NoFile
    /\ j_saved = <<>>
    /\ j_loaded = NotLoaded

WritersIdle ==
    /\ wr_pc = <<>>
    /\ wr_lock = 0
    /\ wr_seen = <<>>
    /\ wr_buffer = <<>>
    /\ wr_file = NoFile
    /\ wr_completed = <<>>
    /\ wr_calls = <<>>

NoSignal == [arrived |-> FALSE]

CancelIdle ==
    /\ c_pc = "idle"
    /\ c_site = "none"
    /\ c_i = 0
    /\ c_left = 0
    /\ c_clock = 0
    /\ c_cycles = 0
    /\ c_signal = NoSignal
    /\ c_after = 0

NotBought == [done |-> FALSE]

BuyIdle ==
    /\ buy_in = [variant |-> "none"]
    /\ buy_out = NotBought

NoStartupLog == [exit_status |-> 0, clients |-> 0, api_calls |-> 0, cycles |-> 0]

StartupIdle ==
    /\ st_in = [script |-> "none"]
    /\ st_pc = "idle"
    /\ st_log = NoStartupLog

NotSaved == [done |-> FALSE]

SaveIdle ==
    /\ save_in = [write |-> "none"]
    /\ save_out = NotSaved

MoreIdle ==
    JournalIdle /\ WritersIdle /\ CancelIdle /\ BuyIdle /\ StartupIdle /\ SaveIdle

UnitIdle == SellIdle /\ SigIdle /\ IndIdle /\ MoreIdle

\* The parts other than the five above.
old_vars ==
    <<loop_vars, retry_vars, quant_vars, bot_vars, sell_vars, sig_vars, ind_vars, save_vars>>

OldIdle ==
    /\ LoopIdle /\ RetryIdle /\ QuantIdle /\ BotIdle /\ SellIdle /\ SigIdle /\ IndIdle
    /\ SaveIdle

-----------------------------------------------------------------------------
(* Spec: the main loop, src/tradebot.py 296-299, src/tradebot2.py 353-356 *)

\* Iterations of trade()'s for loop the model follows.
MaxSteps == 3

\* time.time() when the loop starts (seconds since 1970).
StartTime == 1700000000

\* The exchange's answers the loop is run against: two prices, a lot size
\* with a decimal step (minQty 0.01, stepSize 0.001) and one with a whole
\* step (minQty 1, stepSize 1), a small and a large asset balance.
SpecPrices == {13 * Scale, 100 * Scale}
SpecLotSizes == {SymbolInfo(10, 1), SymbolInfo(1000, 1000)}
SpecAssetBalances == {5, 1500}
SpecSnapshots ==
    [buy  |-> Klines(Num(95 * Scale), Num(100 * Scale), Num(110 * Scale), Num(25)),
     sell |-> Klines(Num(115 * Scale), Num(100 * Scale), Num(110 * Scale), Num(75)),
     hold |-> Klines(Num(105 * Scale), Num(100 * Scale), Num(110 * Scale), Num(50)),
     short |-> Klines(Num(105 * Scale), NaN, NaN, NaN)]

\* An iteration in which everything answers at once and nothing is traded.
QuietEnv ==
    [klines |-> FailThen(0, SpecSnapshots.hold),
     balance |-> FailThen(0, Balance(50 * Scale)),
     ticker |-> Returns(Ticker(100 * Scale)),
     info |-> FailThen(0, SymbolInfo(10, 1)),
     order |-> FailThen(0, OrderResponse),
     balance1 |-> FailThen(0, Balance(1500)),
     balance2 |-> FailThen(0, Balance(1500)),
     pow |-> "MemoryError",
     sell_order |-> FailThen(0, OrderResponse),
     journal |-> "ok",
     plot |-> "ok"]

\* The environments below let one thing go wrong per iteration: one call
\* that fails (once, or on every attempt), one answer that stops the order,
\* or one failing file operation, each against every answer of the others.
InfoAnswers == {FailThen(0, i) : i \in SpecLotSizes}
InfoFailures == {FailThen(0, SymbolInfoNoLotSize), FailThen(RetryLimit, None)}
OrderFailures == {FailThen(1, OrderResponse), FailThen(RetryLimit, OrderResponse)}

\* The endings of an iteration after the orders: the journal write fails, or
\* the plot fails.
FileFailures(envs) ==
    {[e EXCEPT !.journal = "OSError"] : e \in envs}
        \cup {[e EXCEPT !.plot = "raise"] : e \in envs}

FetchFailEnvs ==
    {[QuietEnv EXCEPT !.klines = b] :
        b \in {FailThen(RetryLimit, None), FailThen(0, EmptyDict)}}

HoldEnvs ==
    {[QuietEnv EXCEPT !.klines = FailThen(0, s), !.plot = p] :
        s \in {SpecSnapshots.hold, SpecSnapshots.short}, p \in {"ok", "raise"}}

BuyEnvs ==
    LET base == [QuietEnv EXCEPT !.klines = FailThen(0, SpecSnapshots.buy)]
        answered ==
            {[base EXCEPT !.ticker = Returns(Ticker(p)), !.info = i] :
                p \in SpecPrices, i \in InfoAnswers}
    IN  answered
        \cup FileFailures(answered)
        \cup {[e EXCEPT !.order = o] : e \in answered, o \in OrderFailures}
        \cup {[base EXCEPT !.balance = b] :
                b \in {FailThen(RetryLimit, None), FailThen(0, None),
                       FailThen(0, Balance(10 * Scale))}}
        \cup {[base EXCEPT !.ticker = Raises("BinanceAPIException")]}
        \cup {[base EXCEPT !.info = i] : i \in InfoFailures}

SellEnvs ==
    LET base == [QuietEnv EXCEPT !.klines = FailThen(0, SpecSnapshots.sell)]
        answered ==
            {[base EXCEPT !.balance1 = FailThen(0, Balance(a)),
                          !.balance2 = FailThen(0, Balance(a)),
                          !.info = i, !.pow = p] :
                a \in SpecAssetBalances, i \in InfoAnswers,
                p \in {"MemoryError", "hang"}}
    IN  answered
        \cup FileFailures(answered)
        \cup {[e EXCEPT !.sell_order = o] : e \in answered, o \in OrderFailures}
        \cup {[base EXCEPT !.balance1 = b] :
                b \in {FailThen(RetryLimit, None), FailThen(0, None)}}
        \cup {[base EXCEPT !.balance2 = b] :
                b \in {FailThen(RetryLimit, None), FailThen(0, Balance(5))}}
        \cup {[base EXCEPT !.info = i] : i \in InfoFailures}

TradeEnvs == FetchFailEnvs \cup HoldEnvs \cup BuyEnvs \cup SellEnvs

\* Iterations of the for loop completed or begun so far.
StepsDone == (cycle - 1) * Len(symbols) + (idx - 1)

Init ==
    /\ variant \in {"tradebot", "tradebot2"}
    /\ pc = "trade"
    /\ idx = 1
    /\ cycle = 1
    /\ cycle_start = StartTime
    /\ now = StartTime
    /\ last_buy_time = [s \in SymbolSet |-> 0]
    /\ symbol_precision_cache = <<>>
    /\ signal_file = NoFile
    /\ submitted = <<>>
    /\ buy_cycle_starts = [s \in SymbolSet |-> {}]
    /\ last_failure = "none"
    /\ info_log = NoInfoLog
    /\ RetryIdle
    /\ QuantIdle
    /\ BotIdle
    /\ UnitIdle

\* One iteration of the for loop of trade(), for symbols[idx].
TradeSymbol ==
    /\ pc = "trade"
    /\ idx <= Len(symbols)
    /\ StepsDone < MaxSteps
    /\ \E env \in TradeEnvs :
         \E w \in {trade_symbol(World(now, symbol_precision_cache, signal_file),
                                variant, last_buy_time, symbols[idx], env)} :
             /\ now' = w.now
             /\ symbol_precision_cache' = w.cache
             /\ signal_file' = w.file
             /\ submitted' = w.submitted
             /\ buy_cycle_starts' =
                  IF \E k \in 1..Len(w.submitted) : w.submitted[k].side = "BUY"
                  THEN [buy_cycle_starts EXCEPT ![symbols[idx]] = @ \cup {cycle_start}]
                  ELSE buy_cycle_starts
             /\ last_failure' = w.failure
             /\ info_log' = InfoLog(symbols[idx],
                                    symbols[idx] \in DOMAIN symbol_precision_cache,
                                    w.info_calls, w.info_exhausted,
                                    IF w.info_exhausted
                                    THEN info_log.gave_up \cup {symbols[idx]}
                                    ELSE info_log.gave_up)
             /\ pc' = IF w.hung THEN "hung"
                      ELSE IF w.raised THEN "terminated"
                      ELSE "trade"
             /\ idx' = IF w.hung \/ w.raised THEN idx ELSE idx + 1
    /\ UNCHANGED <<variant, cycle, cycle_start, last_buy_time>>
    /\ UNCHANGED <<retry_vars, quant_vars, bot_vars, unit_vars>>

\* trade() returns; the main loop goes to time.sleep(60).
FinishCycle ==
    /\ pc = "trade"
    /\ idx > Len(symbols)
    /\ pc' = "sleep"
    /\ UNCHANGED <<variant, idx, cycle, cycle_start, now, last_buy_time,
                   symbol_precision_cache, signal_file, submitted, buy_cycle_starts,
                   last_failure, info_log>>
    /\ UNCHANGED <<retry_vars, quant_vars, bot_vars, unit_vars>>

\* time.sleep(60) returns; while True calls trade() again.
NextCycle ==
    /\ pc = "sleep"
    /\ pc' = "trade"
    /\ idx' = 1
    /\ cycle' = cycle + 1
    /\ now' = now + CycleSleep
    /\ cycle_start' = now + CycleSleep
    /\ UNCHANGED <<variant, last_buy_time, symbol_precision_cache, signal_file,
                   submitted, buy_cycle_starts, last_failure, info_log>>
    /\ UNCHANGED <<retry_vars, quant_vars, bot_vars, unit_vars>>

Next == TradeSymbol \/ FinishCycle \/ NextCycle

Spec == Init /\ [][Next]_vars

-----------------------------------------------------------------------------
(* SpecRetry: safe_api_call applied to every behaviour of the wrapped call *)

InitRetry ==
    /\ call_behaviour \in [1..BehaviourLen -> AttemptOutcomes]
    /\ call_result = NotCalled
    /\ LoopIdle
    /\ QuantIdle
    /\ BotIdle
    /\ UnitIdle

\* One call safe_api_call(func) with func behaving as call_behaviour says.
CallSafeApi ==
    /\ call_result = NotCalled
    /\ call_result' = safe_api_call(call_behaviour)
    /\ UNCHANGED call_behaviour
    /\ UNCHANGED <<loop_vars, quant_vars, bot_vars, unit_vars>>

NextRetry == CallSafeApi

SpecRetry == InitRetry /\ [][NextRetry]_vars

-----------------------------------------------------------------------------
(* SpecQuant: the quantity of execute_buy_order on a range of inputs *)

\* Prices run over 1 .. MaxQuantPrice (whole USDT).
MaxQuantPrice == 100

\* 1.25 USDT, the script's 20 USDT, and nothing.
QuantAmounts == {0, 1250, usdt_amount}
QuantPrices == {p * Scale : p \in 1..MaxQuantPrice}
\* 0.001, 0.01, 0.1, 0.5, 1, 5
QuantSteps == {1, 10, 100, 500, 1000, 5000}

InitQuant ==
    /\ q_in \in [amount : QuantAmounts, price : QuantPrices, step_size : QuantSteps]
    /\ q_out = NotComputed
    /\ LoopIdle
    /\ RetryIdle
    /\ BotIdle
    /\ UnitIdle

\* src/tradebot.py 174-184 on q_in.
ComputeQuantity ==
    /\ ~q_out.computed
    /\ q_out' = [computed |-> TRUE,
                 quantity |-> BuyQuantity(q_in.amount, q_in.price, q_in.step_size)]
    /\ UNCHANGED q_in
    /\ UNCHANGED <<loop_vars, retry_vars, bot_vars, unit_vars>>

NextQuant == ComputeQuantity

SpecQuant == InitQuant /\ [][NextQuant]_vars

-----------------------------------------------------------------------------
(* SpecBot: run_bot, src/tradebot_2.py 51-92.                              *)
(* The module's own start-up (lines 7-14) reads os and API_KEY, which the  *)
(* file never defines; SpecBot starts at the entry of run_bot.             *)

\* src/tradebot_2.py 19-21, as percentages
risk_per_trade == 1
stop_loss_pct == 2
take_profit_pct == 5

\* src/tradebot_2.py 70 and 79: the RSI thresholds of run_bot
bot_rsi_oversold == 30
bot_rsi_overbought == 70

\* src/tradebot_2.py 88 and 92: the sleeps after an iteration and after an error
BotCandleSleep == 3600
BotErrorSleep == 60

\* Iterations of the while loop the model follows.
MaxBotIterations == 3

Set(v) == [set |-> TRUE, v |-> v]

\* What one iteration is run against: the latest close, EMA and RSI (NaN while
\* the indicator's window is not full), whether fetching raised, and what
\* exchange.create_market_order did.
BotCloses == {90 * Scale, 97 * Scale, 100 * Scale, 105 * Scale}
BotEmas == {Num(95 * Scale), Num(100 * Scale), NaN}
BotRsis == {Num(25), Num(50), Num(75), NaN}
BotBalances == {1000 * Scale}

\* src/tradebot_2.py 41-49: place_order catches what create_market_order
\* raises and returns None.
place_order(side, amount, order_outcome) ==
    [side |-> side, amount |-> amount, placed |-> ~order_outcome.raises]

NoOrder == [side |-> "none", amount |-> 0, placed |-> FALSE]

\* src/tradebot_2.py 69-84: the trading logic of one iteration.
\*   if rsi < 30 and price > ema: buy
\*   elif rsi > 70 or price < ema: sell
BotDecision(price, ema, rsi) ==
    IF Lt(rsi, Num(bot_rsi_oversold)) /\ Gt(Num(price), ema) THEN "buy"
    ELSE IF Gt(rsi, Num(bot_rsi_overbought)) \/ Lt(Num(price), ema) THEN "sell"
    ELSE "none"

\* trade_amount = (balance * risk_per_trade) / price, cut to the grid
TradeAmount(balance, price) == (balance * risk_per_trade * Scale) \div (100 * price)

InitBot ==
    /\ stop_loss_price = Unset
    /\ take_profit_price = Unset
    /\ bot_entry = Unset
    /\ bot_last = NoIteration
    /\ bot_iterations = 0
    /\ LoopIdle
    /\ RetryIdle
    /\ QuantIdle
    /\ UnitIdle

\* An iteration in which fetch_ohlcv or get_account_balance raises: the
\* except of line 90 prints the error and sleeps 60 seconds.
BotIterationFails ==
    /\ bot_iterations < MaxBotIterations
    /\ bot_iterations' = bot_iterations + 1
    /\ bot_last' = [ran |-> TRUE, decision |-> "error", price |-> 0,
                    order |-> NoOrder, entry_before |-> bot_entry,
                    slept |-> BotErrorSleep]
    /\ UNCHANGED <<stop_loss_price, take_profit_price, bot_entry>>
    /\ UNCHANGED <<loop_vars, retry_vars, quant_vars, unit_vars>>

\* An iteration that gets its data.
BotIteration ==
    /\ bot_iterations < MaxBotIterations
    /\ \E price \in BotCloses, ema \in BotEmas, rsi \in BotRsis,
          balance \in BotBalances,
          order_outcome \in {Returns(OrderResponse), Raises("NetworkError")} :
         LET decision == BotDecision(price, ema, rsi)
             trade_amount == TradeAmount(balance, price)
             order == IF decision = "none" THEN NoOrder
                      ELSE place_order(decision, trade_amount, order_outcome)
         IN  /\ stop_loss_price' =
                  IF decision = "buy"
                  THEN Set((price * (100 - stop_loss_pct)) \div 100)
                  ELSE stop_loss_price
             /\ take_profit_price' =
                  IF decision = "buy"
                  THEN Set((price * (100 + take_profit_pct)) \div 100)
                  ELSE take_profit_price
             /\ bot_entry' =
                  IF order.placed /\ decision = "buy" THEN Set(price)
                  ELSE IF order.placed /\ decision = "sell" THEN Unset
                  ELSE bot_entry
             /\ bot_last' = [ran |-> TRUE, decision |-> decision, price |-> price,
                             order |-> order, entry_before |-> bot_entry,
                             slept |-> BotCandleSleep]
    /\ bot_iterations' = bot_iterations + 1
    /\ UNCHANGED <<loop_vars, retry_vars, quant_vars, unit_vars>>

NextBot == BotIteration \/ BotIterationFails

SpecBot == InitBot /\ [][NextBot]_vars

-----------------------------------------------------------------------------
(* Properties                                                              *)

\* Every order_market_buy / order_market_sell call of the latest iteration.
Orders == {submitted[k] : k \in 1..Len(submitted)}

\* C1: for one symbol, two cycles that start less than cooldown_period
\* seconds apart do not both reach order_market_buy.
C1_CooldownBetweenBuys ==
    \A s \in SymbolSet : \A t1, t2 \in buy_cycle_starts[s] :
        t1 # t2 => Abs(t1 - t2) >= cooldown_period

\* C2: once order_market_buy has returned an order for a symbol, the
\* symbol's last_buy_time is a time of the cycle that bought, not the value
\* it had at start-up.
C2_BuyRecordsLastBuyTime ==
    \A o \in Orders :
        (o.side = "BUY" /\ o.accepted) =>
            /\ last_buy_time[o.symbol] >= cycle_start
            /\ last_buy_time[o.symbol] <= now

C4_OrdersOnLotGrid ==
    \A o \in Orders : o.quantity > 0 /\ o.quantity % o.step_size = 0

\* C5: every quantity handed to order_market_buy or order_market_sell is
\* nonzero and at least the symbol's minQty.
C5_OrdersAtLeastMinQty ==
    \A o \in Orders : o.quantity # 0 /\ o.quantity >= o.min_qty

\* The reference quantizer: floor((notional / price) / stepSize) * stepSize.
ReferenceQuantity(amount, price, step_size) ==
    FloorSteps(amount, price, step_size) * step_size

\* C6: the quantity execute_buy_order computes is the reference quantizer's,
\* for every notional, price and step size.
C6_BuyQuantityIsReference ==
    q_out.computed =>
        q_out.quantity = ReferenceQuantity(q_in.amount, q_in.price, q_in.step_size)

\* The wrapped call raises on attempts 1 to 4 and returns on attempt 5.
FailsFourTimes ==
    /\ call_result.attempts > 0
    /\ \A i \in 1..(RetryLimit - 1) : call_behaviour[i].raises
    /\ ~call_behaviour[RetryLimit].raises

C8_NeverRaises ==
    call_result.attempts > 0 =>
        /\ ~call_result.raised
        /\ call_result.attempts <= 5
        /\ (\A i \in 1..5 : call_behaviour[i].raises) =>
              (call_result.result = None /\ call_result.attempts = 5)

C8_Witness ==
    /\ \A i \in 1..5 : call_behaviour[i].raises
    /\ \E i \in 1..5 : call_behaviour[i].exc = "ConnectionError"
    /\ call_result.attempts = 5
    /\ call_result.result = None
    /\ ~call_result.raised

\* C9: a cycle of trade() that a failure ended left no symbol of the list
\* unprocessed behind the one that failed.
C9_LaterSymbolsProcessed ==
    pc = "terminated" => idx = Len(symbols)

\* C10: no failure inside a cycle ends the main loop.
C10_MainLoopSurvives ==
    pc # "terminated"

\* C11: an iteration whose save_trade_signal failed goes on: the failure does
\* not end trade() and the loop.
C11_JournalFailureKeepsCycle ==
    last_failure = "journal" => pc = "trade"

\* C12: an iteration in which an order call came back without an order leaves
\* last_buy_time and symbol_precision_cache as they were before it.
C12_FailedOrderLeavesState ==
    [][ (submitted' # submitted /\ \E k \in 1..Len(submitted') : ~submitted'[k].accepted)
          => /\ last_buy_time' = last_buy_time
             /\ symbol_precision_cache' = symbol_precision_cache ]_vars

\* C14: the journal gains a record in an iteration only if an order of that
\* iteration was submitted and came back from the exchange.
C14_JournalRowNeedsOrder ==
    [][ Len(signal_file'.lines) > Len(signal_file.lines)
          => \E k \in 1..Len(submitted') : submitted'[k].accepted ]_vars

\* C15: an iteration whose lot-filter lookup failed on all 5 attempts submits
\* no order and leaves symbol_precision_cache as it was; and every order for a
\* symbol the cache did not hold was preceded by a lookup in its iteration.
C15_ExhaustedLookupLeavesNothing ==
    /\ [][ (pc = "trade" /\ idx <= Len(symbols) /\ info_log'.exhausted)
             => /\ info_log'.calls = 5
                /\ submitted' = <<>>
                /\ symbol_precision_cache' = symbol_precision_cache ]_vars
    /\ []( (submitted # <<>> /\ ~info_log.cached_before) => info_log.calls >= 1 )

\* A symbol whose lookup gave up in one cycle has its filters in the cache
\* after a later one.
C15_Witness ==
    \E s \in info_log.gave_up :
        /\ s \in DOMAIN symbol_precision_cache
        /\ symbol_precision_cache[s].step_size > 0
        /\ cycle = 2

\* C16: an iteration for a symbol that symbol_precision_cache already held
\* makes no client.get_symbol_info call.
C16_CachedSymbolNoLookup ==
    info_log.cached_before => info_log.calls = 0

-----------------------------------------------------------------------------
(* SpecSell: one call of execute_sell_order,                               *)
(* src/tradebot.py 210-260 and src/tradebot2.py 265-288                    *)

\* time.time() on a host whose clock stands half an hour after the epoch
\* (no clock source yet): the one clock at which now - last_buy_time[symbol],
\* with last_buy_time[symbol] = 0 as the program keeps it, is below
\* cooldown_period.
ClockUnset == 1800

SellClocks == {ClockUnset, StartTime}

\* The exchange's answers to the calls of execute_sell_order.
SellCallEnvs ==
    [balance2 : {FailThen(0, Balance(a)) : a \in SpecAssetBalances},
     info : InfoAnswers \cup InfoFailures,
     pow : {"MemoryError", "hang"},
     order : {FailThen(0, OrderResponse)} \cup OrderFailures]

\* execute_sell_order(symbol, quantity) of the script `in.variant`, called at
\* clock t with last_buy_time as it is after start-up.
ExecuteSellAt(in, t) ==
    IF in.variant = "tradebot"
    THEN execute_sell_order_1(World(t, <<>>, NoFile), [s \in SymbolSet |-> 0],
                              symbols[1], in.quantity, in.env)
    ELSE execute_sell_order_2(World(t, <<>>, NoFile), symbols[1], in.quantity, in.env)

InitSell ==
    /\ sell_in \in [variant : {"tradebot", "tradebot2"},
                    now : SellClocks,
                    quantity : SpecAssetBalances,
                    env : SellCallEnvs]
    /\ sell_out = NotSold
    /\ SigIdle
    /\ IndIdle
    /\ LoopIdle
    /\ RetryIdle
    /\ QuantIdle
    /\ BotIdle
    /\ MoreIdle

ExecuteSell ==
    /\ ~sell_out.done
    /\ \E w \in {ExecuteSellAt(sell_in, sell_in.now)} :
         sell_out' = [done |-> TRUE, submitted |-> w.submitted, hung |-> w.hung]
    /\ UNCHANGED <<sell_in, sig_vars, ind_vars>>
    /\ UNCHANGED <<loop_vars, retry_vars, quant_vars, bot_vars, more_vars>>

NextSell == ExecuteSell

SpecSell == InitSell /\ [][NextSell]_vars

\* C13: execute_sell_order submits a sell order at this clock exactly when it
\* submits one, against the same answers, at a clock at which the cooldown
\* condition now - last_buy_time[symbol] < cooldown_period is false.
C13_CooldownDoesNotGateSell ==
    sell_out.done =>
        ( (sell_out.submitted # <<>>)
            <=> (ExecuteSellAt(sell_in, StartTime).submitted # <<>>) )

-----------------------------------------------------------------------------
(* SpecSignal: check_buy_signal and check_sell_signal on one last row,     *)
(* src/tradebot.py 88-125                                                  *)

\* The last rows the signals are evaluated on: closes below, on, between and
\* above the bands; the bands undefined (both, as both come from SMA and
\* STD) or defined; RSI undefined, below, on, between and above the thresholds.
SignalCloses == {90, 95, 100, 105, 110, 115, 120}
SignalBands == {<<NaN, NaN>>, <<Num(100 * Scale), Num(110 * Scale)>>,
                <<Num(105 * Scale), Num(105 * Scale)>>}
SignalRsis == {NaN, Num(0), Num(25), Num(40), Num(50), Num(60), Num(75), Num(100)}

InitSignal ==
    /\ sig_in \in {Klines(Num(c * Scale), b[1], b[2], r) :
                      c \in SignalCloses, b \in SignalBands, r \in SignalRsis}
    /\ sig_out = NotEvaluated
    /\ SellIdle
    /\ IndIdle
    /\ LoopIdle
    /\ RetryIdle
    /\ QuantIdle
    /\ BotIdle
    /\ MoreIdle

\* buy_signal = check_buy_signal(df, symbol); sell_signal = check_sell_signal(df, symbol)
EvaluateSignals ==
    /\ ~sig_out.evaluated
    /\ sig_out' = [evaluated |-> TRUE,
                   buy |-> check_buy_signal(sig_in),
                   sell |-> check_sell_signal(sig_in)]
    /\ UNCHANGED <<sig_in, sell_vars, ind_vars>>
    /\ UNCHANGED <<loop_vars, retry_vars, quant_vars, bot_vars, more_vars>>

NextSignal == EvaluateSignals

SpecSignal == InitSignal /\ [][NextSignal]_vars

\* The indicators of the row are all defined.
SnapshotDefined(df) ==
    ~df.close.nan /\ ~df.lower_band.nan /\ ~df.upper_band.nan /\ ~df.RSI.nan

\* C17: the buy signal is true exactly when the row is defined, close is below
\* the lower band and RSI is below 40; the sell signal exactly when the row is
\* defined, close is above the upper band and RSI is above 60; and close 95,
\* lower band 100, RSI 25 gives the buy signal.
C17_SignalsAreDecisionFunction ==
    sig_out.evaluated =>
        /\ sig_out.buy <=> ( /\ SnapshotDefined(sig_in)
                             /\ sig_in.close.v < sig_in.lower_band.v
                             /\ sig_in.RSI.v < 40 )
        /\ sig_out.sell <=> ( /\ SnapshotDefined(sig_in)
                              /\ sig_in.close.v > sig_in.upper_band.v
                              /\ sig_in.RSI.v > 60 )
        /\ ( /\ sig_in.close = Num(95 * Scale)
             /\ sig_in.lower_band = Num(100 * Scale)
             /\ sig_in.RSI = Num(25) ) => (sig_out.buy /\ ~sig_out.sell)

C17_Witness ==
    /\ sig_out.evaluated
    /\ sig_in.close = Num(95 * Scale)
    /\ sig_in.lower_band = Num(100 * Scale)
    /\ sig_in.RSI = Num(25)
    /\ sig_out.buy
    /\ ~sig_out.sell

-----------------------------------------------------------------------------
(* Indicators: calculate_bollinger_bands and calculate_rsi,                *)
(* src/tradebot.py 71-86 (the same text at src/tradebot2.py 121-136)       *)
(* A series is the column df['close'], oldest bar first, in whole price    *)
(* units; the indicators are those of its last bar.                        *)

\* src/tradebot.py 35
bollinger_window == 14
\* src/tradebot.py 36: bollinger_std_dev = 1.5, as halves
bollinger_std_dev_halves == 3
\* src/tradebot.py 79: window=7
rsi_window == 7

Max(a, b) == IF a >= b THEN a ELSE b

\* The rows a rolling window ending at the last bar covers.
Window(s, window) == SubSeq(s, Max(1, Len(s) - window + 1), Len(s))

\* A rolling window that gives a value from the first bar on (not the code's).
RollingDefinedFromOne(n, window) == n >= 1
\* rolling(window=window) with the default min_periods = window: the value is
\* NaN until the window is full.
RollingDefined(n, window) == n >= window

\* floor(sqrt(n)) for 0 <= n < 2^30, by bisection between lo and hi.
RECURSIVE ISqrtBetween(_, _, _)
ISqrtBetween(n, lo, hi) ==
    IF hi - lo <= 1 THEN lo
    ELSE LET mid == (lo + hi) \div 2 IN
         IF mid * mid <= n THEN ISqrtBetween(n, mid, hi)
         ELSE ISqrtBetween(n, lo, mid)
ISqrt(n) == ISqrtBetween(n, 0, 2 ^ 15)

\* The standard deviation is kept in units of 1/StdGrid of a price unit, cut
\* downwards.
StdGrid == 10 ^ 2

SumSquares(s) == SumSeq([i \in 1..Len(s) |-> s[i] * s[i]])

\* calculate_bollinger_bands: SMA, STD (sample standard deviation, ddof = 1)
\* and the two bands of the last bar, in units of 1/Scale like the close.
calculate_bollinger_bands(series) ==
    LET w == Window(series, bollinger_window)
        k == Len(w)
        S == SumSeq(w)
        Q == SumSquares(w)
    IN  IF ~RollingDefined(Len(series), bollinger_window) \/ k < 2
        THEN [SMA |-> IF RollingDefined(Len(series), bollinger_window) /\ k >= 1
                      THEN Rat(Scale * S, k) ELSE NaN,
              STD |-> NaN, upper_band |-> NaN, lower_band |-> NaN]
        ELSE LET std == ISqrt(((k * Q - S * S) * StdGrid * StdGrid) \div (k * (k - 1)))
             IN  [SMA |-> Rat(Scale * S, k),
                  STD |-> Rat(Scale * std, StdGrid),
                  upper_band |->
                      Rat(Scale * (2 * StdGrid * S + bollinger_std_dev_halves * k * std),
                          2 * StdGrid * k),
                  lower_band |->
                      Rat(Scale * (2 * StdGrid * S - bollinger_std_dev_halves * k * std),
                          2 * StdGrid * k)]

\* delta = df['close'].diff(): NaN at the first bar.
\* delta.where(delta > 0, 0) and delta.where(delta < 0, 0): the NaN of the
\* first bar fails both conditions and becomes 0.
GainPart(series) ==
    [i \in 1..Len(series) |->
        IF i > 1 /\ series[i] - series[i - 1] > 0 THEN series[i] - series[i - 1] ELSE 0]
LossPart(series) ==
    [i \in 1..Len(series) |->
        IF i > 1 /\ series[i] - series[i - 1] < 0 THEN series[i] - series[i - 1] ELSE 0]

\* RSI from the sums of the window: 100 - 100 / (1 + gain / loss).
\*   loss > 0:            100 * gain / (gain + loss)
\*   loss = 0, gain > 0:  gain / -0.0 = -inf, 100 - 100 / -inf = 100
\*   loss = 0, gain = 0:  0.0 / -0.0 = NaN
RsiOf(gain, loss) ==
    IF loss = 0
    THEN IF gain = 0 THEN NaN ELSE Num(100)
    ELSE Rat(100 * gain, gain + loss)

\* An RSI with gain and loss in each other's place (not the code's).
calculate_rsi_swapped(series) ==
    IF ~RollingDefined(Len(series), rsi_window)
    THEN NaN
    ELSE RsiOf(0 - SumSeq(Window(LossPart(series), rsi_window)),
               SumSeq(Window(GainPart(series), rsi_window)))
\* calculate_rsi: the RSI of the last bar. The two rolling means share the
\* divisor, so their quotient is that of the sums.
calculate_rsi(series) ==
    IF ~RollingDefined(Len(series), rsi_window)
    THEN NaN
    ELSE RsiOf(SumSeq(Window(GainPart(series), rsi_window)),
               0 - SumSeq(Window(LossPart(series), rsi_window)))

\* df.iloc[-1] after calculate_bollinger_bands and calculate_rsi.
LastRow(series) ==
    LET bands == calculate_bollinger_bands(series) IN
    Klines(Num(Scale * series[Len(series)]), bands.lower_band, bands.upper_band,
           calculate_rsi(series))

-----------------------------------------------------------------------------
(* SpecIndicators: the indicators and signals of one price series, and the *)
(* orders one iteration of trade() of tradebot2.py submits on it when      *)
(* every call is answered                                                  *)

\* Series of up to MaxBars bars that start at BasePrice and stay there until
\* their last TailBars steps, each of which is one of Deltas.
MaxBars == 14
TailBars == 8
BasePrice == 10
Deltas == {-1, 0, 1}

Min(a, b) == IF a <= b THEN a ELSE b

\* The series of n bars whose last steps are those of tail.
Series(n, tail) ==
    LET flat == (n - 1) - Len(tail)
        step(i) == IF i <= flat + 1 THEN 0 ELSE tail[i - 1 - flat]
    IN  [i \in 1..n |-> BasePrice + SumSeq([j \in 1..i |-> step(j)])]

InitIndicators ==
    /\ \E n \in 1..MaxBars :
         \E tail \in [1..Min(n - 1, TailBars) -> Deltas] :
            closes = Series(n, tail)
    /\ ind_out = NotEvaluated
    /\ SellIdle
    /\ SigIdle
    /\ LoopIdle
    /\ RetryIdle
    /\ QuantIdle
    /\ BotIdle
    /\ MoreIdle

\* df = calculate_rsi(calculate_bollinger_bands(df)), the two signals, and
\* the rest of the iteration of trade() on this data frame.
ComputeIndicators ==
    /\ ~ind_out.evaluated
    /\ \E df \in {LastRow(closes)} :
         ind_out' =
            [evaluated |-> TRUE, df |-> df,
             buy |-> check_buy_signal(df),
             sell |-> check_sell_signal(df),
             orders |-> trade_symbol(World(StartTime, <<>>, NoFile), "tradebot2",
                                     [s \in SymbolSet |-> 0], symbols[1],
                                     [QuietEnv EXCEPT !.klines = FailThen(0, df)]).submitted]
    /\ UNCHANGED <<closes, sell_vars, sig_vars>>
    /\ UNCHANGED <<loop_vars, retry_vars, quant_vars, bot_vars, more_vars>>

NextIndicators == ComputeIndicators

SpecIndicators == InitIndicators /\ [][NextIndicators]_vars

-----------------------------------------------------------------------------
(* Properties of the indicators, checked on SpecIndicators *)

\* C18: a series shorter than the Bollinger window or the RSI window gives
\* neither signal, and the iteration of trade() on it submits no order.
C18_ShortHistoryIsHold ==
    ( /\ ind_out.evaluated
      /\ (Len(closes) < bollinger_window \/ Len(closes) < rsi_window) )
        => /\ ~ind_out.buy
           /\ ~ind_out.sell
           /\ ind_out.orders = <<>>

\* A series of seven or more bars, too short for the bands, whose last close
\* has fallen, evaluated to Hold.
C18_Witness ==
    /\ ind_out.evaluated
    /\ Len(closes) >= rsi_window
    /\ Len(closes) < bollinger_window
    /\ closes[Len(closes)] < closes[Len(closes) - 1]
    /\ ind_out.df.lower_band.nan
    /\ ~ind_out.df.RSI.nan
    /\ ~ind_out.buy
    /\ ind_out.orders = <<>>

\* Every step of the RSI window of the last bar goes up (down).
RisingWindow(series) ==
    /\ Len(series) >= rsi_window
    /\ \A i \in Max(2, Len(series) - rsi_window + 1)..Len(series) : series[i] > series[i - 1]
FallingWindow(series) ==
    /\ Len(series) >= rsi_window
    /\ \A i \in Max(2, Len(series) - rsi_window + 1)..Len(series) : series[i] < series[i - 1]

\* C19: a defined RSI lies in [0, 100]; it is 100 when every step of the
\* window goes up and 0 when every step goes down.
C19_RsiRange ==
    ind_out.evaluated =>
        /\ ~ind_out.df.RSI.nan =>
              /\ ind_out.df.RSI.d > 0
              /\ 0 <= ind_out.df.RSI.v
              /\ ind_out.df.RSI.v <= 100 * ind_out.df.RSI.d
        /\ RisingWindow(closes) =>
              (~ind_out.df.RSI.nan /\ ind_out.df.RSI.v = 100 * ind_out.df.RSI.d)
        /\ FallingWindow(closes) =>
              (~ind_out.df.RSI.nan /\ ind_out.df.RSI.v = 0)

\* A window of the full length whose steps all go up, with RSI 100.
C19_Witness ==
    /\ ind_out.evaluated
    /\ Len(closes) > rsi_window
    /\ RisingWindow(closes)
    /\ ind_out.df.RSI = Num(100)

\* C20: when no step of the full RSI window goes down (average loss zero),
\* the RSI of the last bar is 100.
C20_ZeroLossIsHundred ==
    ( /\ ind_out.evaluated
      /\ Len(closes) >= rsi_window
      /\ \A i \in Max(2, Len(closes) - rsi_window + 1)..Len(closes) : closes[i] >= closes[i - 1] )
        => (~ind_out.df.RSI.nan /\ ind_out.df.RSI.v = 100 * ind_out.df.RSI.d)

-----------------------------------------------------------------------------
(* The text of trade_signals.csv: csv.writer (src/tradebot2.py 78-86) and  *)
(* pandas.read_csv / to_datetime (src/tradebot2.py 296-297)                *)

\* str() of a pandas Timestamp, 'YYYY-MM-DD HH:MM:SS': the day since the epoch
\* and the second of the day.
SecondsPerDay == 86400
TextOfTimestamp(ts) ==
    [kind |-> "datetime_text", day |-> ts.t \div SecondsPerDay,
     second |-> ts.t % SecondsPerDay]

\* str() of a float: its shortest decimal text, the whole part and the
\* digits behind the point.
TextOfFloat(x) ==
    [kind |-> "decimal_text", whole |-> x.v \div Scale, thousandths |-> x.v % Scale]

\* writer.writerow(...): the text line that reaches the file.
writerow(line) ==
    IF line.kind = "header"
    THEN [kind |-> "header_text"]
    ELSE [kind |-> "row_text",
          timestamp |-> TextOfTimestamp(line.timestamp),
          symbol |-> line.symbol,
          signal_type |-> line.signal_type,
          price |-> TextOfFloat(line.price)]

\* pd.to_datetime on one text
to_datetime(text) == Timestamp(text.day * SecondsPerDay + text.second)

\* the float read_csv parses from a decimal text
ParseFloat(text) == Num(text.whole * Scale + text.thousandths)

\* One (timestamp, symbol, signal_type, price) tuple.
SignalTuple(timestamp, symbol, signal_type, price) ==
    [timestamp |-> timestamp, symbol |-> symbol,
     signal_type |-> signal_type, price |-> price]

\* pd.read_csv(signal_file) followed by df["timestamp"] = pd.to_datetime(...):
\* the first line names the columns, every other line is a row. It raises
\* when the file is empty, when its first line is not the header (no column
\* "timestamp") and when a later line is the header text (not a date).
read_csv(lines) ==
    IF lines = <<>> \/ lines[1].kind # "header"
       \/ \E k \in 2..Len(lines) : lines[k].kind = "header"
    THEN [raised |-> TRUE, rows |-> <<>>]
    ELSE [raised |-> FALSE,
          rows |-> [k \in 1..(Len(lines) - 1) |->
                      LET text == writerow(lines[k + 1]) IN
                      SignalTuple(to_datetime(text.timestamp), text.symbol,
                                  text.signal_type, ParseFloat(text.price))]]

\* The rows of a data frame that a condition keeps, in order.
RowsWithSymbol(rows, symbol) == SelectSeq(rows, LAMBDA r : r.symbol = symbol)

\* A load that does not filter (not the code's).
load_trade_signals_unfiltered(file, symbol) ==
    IF ~file.exists
    THEN [raised |-> FALSE, rows |-> <<>>]
    ELSE read_csv(file.lines)
\* load_trade_signals: src/tradebot2.py 291-299
load_trade_signals(file, symbol) ==
    IF ~file.exists
    THEN [raised |-> FALSE, rows |-> <<>>]
    ELSE LET df == read_csv(file.lines) IN
         IF df.raised THEN df
         ELSE [raised |-> FALSE, rows |-> RowsWithSymbol(df.rows, symbol)]

-----------------------------------------------------------------------------
(* SpecJournal: save_trade_signal and load_trade_signals called in any     *)
(* order, and iterations of trade() of tradebot2.py, on one journal file   *)

\* Successful saves the model follows.
MaxSaved == 3

\* What save_trade_signal is called with: the symbols of the script, the two
\* signal types, closes (0.0, which is falsy, and 0.35) and bar times.
JournalPrices == {Num(0), Num(350)}
JournalTimes == {Timestamp(BarOpenTime(StartTime)),
                 Timestamp(BarOpenTime(StartTime) + BarSeconds)}

\* The iterations of trade(): a buy, a sell or no signal, every call answered,
\* the journal write working or not.
JournalTradeEnvs ==
    {[QuietEnv EXCEPT !.klines = FailThen(0, s), !.journal = j] :
        s \in {SpecSnapshots.buy, SpecSnapshots.sell, SpecSnapshots.hold},
        j \in {"ok", "OSError"}}

InitJournal ==
    /\ j_file = NoFile
    /\ j_saved = <<>>
    /\ j_loaded = NotLoaded
    /\ OldIdle
    /\ WritersIdle
    /\ CancelIdle
    /\ BuyIdle
    /\ StartupIdle

\* One call save_trade_signal(symbol, signal_type, price, timestamp).
SaveSignal ==
    /\ Len(j_saved) < MaxSaved
    /\ \E symbol \in SymbolSet, signal_type \in {"BUY", "SELL"},
          price \in JournalPrices, timestamp \in JournalTimes,
          write \in {"ok", "OSError"} :
         \E w \in {save_trade_signal(World(StartTime, <<>>, j_file), symbol,
                                     signal_type, price, timestamp, write)} :
            /\ j_file' = w.file
            /\ j_saved' = IF w.raised THEN j_saved
                          ELSE Append(j_saved,
                                      SignalTuple(timestamp, symbol, signal_type, price))
    /\ UNCHANGED j_loaded
    /\ UNCHANGED <<old_vars, writer_vars, cancel_vars, buy_vars, startup_vars>>

\* One call load_trade_signals(symbol).
LoadSignals ==
    /\ \E symbol \in SymbolSet :
         \E df \in {load_trade_signals(j_file, symbol)} :
            j_loaded' = [done |-> TRUE, symbol |-> symbol, raised |-> df.raised,
                         rows |-> df.rows, saved_before |-> Len(j_saved)]
    /\ UNCHANGED <<j_file, j_saved>>
    /\ UNCHANGED <<old_vars, writer_vars, cancel_vars, buy_vars, startup_vars>>

\* One iteration of trade() of tradebot2.py for symbols[1]; it saves the
\* signal of the bar when there is one.
JournalTradeSymbol ==
    /\ Len(j_saved) < MaxSaved
    /\ \E env \in JournalTradeEnvs :
         \E w \in {trade_symbol(World(StartTime, <<>>, j_file), "tradebot2",
                                [s \in SymbolSet |-> 0], symbols[1], env)} :
            LET df == env.klines[1].value
                bar == Timestamp(BarOpenTime(StartTime))
                signal_type == IF check_buy_signal(df) THEN "BUY"
                               ELSE IF check_sell_signal(df) THEN "SELL"
                               ELSE "none"
            IN  /\ j_file' = w.file
                /\ j_saved' = IF signal_type = "none" \/ w.failure = "journal"
                              THEN j_saved
                              ELSE Append(j_saved,
                                          SignalTuple(bar, symbols[1], signal_type,
                                                      df.close))
    /\ UNCHANGED j_loaded
    /\ UNCHANGED <<old_vars, writer_vars, cancel_vars, buy_vars, startup_vars>>

NextJournal == SaveSignal \/ LoadSignals \/ JournalTradeSymbol

SpecJournal == InitJournal /\ [][NextJournal]_vars

\* C21: the journal, read back, is the tuples of the calls that returned, in
\* the order of the calls; and load_trade_signals(s) returned those of them
\* whose symbol is s, in that order.
C21_JournalRoundTrip ==
    /\ j_file.exists =>
          LET df == read_csv(j_file.lines) IN ~df.raised /\ df.rows = j_saved
    /\ ~j_file.exists => j_saved = <<>>
    /\ j_loaded.done =>
          /\ ~j_loaded.raised
          /\ j_loaded.rows =
                RowsWithSymbol(SubSeq(j_saved, 1, j_loaded.saved_before), j_loaded.symbol)

\* Three tuples were saved, of both symbols, and a load returned a proper,
\* non-empty part of them.
C21_Witness ==
    /\ Len(j_saved) = 3
    /\ j_loaded.done
    /\ j_loaded.saved_before = 3
    /\ Len(j_loaded.rows) = 2
    /\ j_loaded.rows[1].price = Num(350)
    /\ j_loaded.rows[2].timestamp = Timestamp(BarOpenTime(StartTime) + BarSeconds)

IsPrefix(a, b) == Len(a) <= Len(b) /\ SubSeq(b, 1, Len(a)) = a

\* C22: every operation leaves the journal's content as a prefix of the
\* content after it.
C22_JournalAppendOnly ==
    [][ IsPrefix(j_file.lines, j_file'.lines) ]_vars

\* The journal holds the header and three rows, the last of which an
\* iteration of trade() appended after a load.
C22_Witness ==
    /\ Len(j_file.lines) = 4
    /\ j_file.lines[1] = HeaderLine
    /\ j_loaded.done
    /\ j_loaded.saved_before = 2
    /\ j_file.lines[4].signal_type = "SELL"
    /\ j_file.lines[4].price = SpecSnapshots.sell.close

-----------------------------------------------------------------------------
(* SpecWriters: threads of the process inside save_trade_signal at once,   *)
(* src/tradebot2.py 28-29 and 74-87                                        *)

\* Threads that call save_trade_signal, and calls each of them makes.
NumWriters == 2
MaxWriterCalls == 2

Writers == 1..NumWriters

\* The row thread t writes in its k-th call.
WriterRow(t, k) ==
    RowLine(Timestamp(BarOpenTime(StartTime) + k * BarSeconds),
            symbols[((t - 1) % Len(symbols)) + 1],
            IF t % 2 = 1 THEN "BUY" ELSE "SELL", Num(350))

\* A lock that lets every thread in (not the code's).
LockIgnored(lock) == TRUE
\* file_lock.acquire() of `with file_lock:` returns when no thread holds it.
LockFree(lock) == lock = 0

\* The positions between `with file_lock:` and the end of that block.
InsideLock == {"locked", "checked", "opened", "written", "closed"}

InitWriters ==
    /\ wr_pc = [t \in Writers |-> "idle"]
    /\ wr_lock = 0
    /\ wr_seen = [t \in Writers |-> FALSE]
    /\ wr_buffer = [t \in Writers |-> <<>>]
    /\ wr_file = NoFile
    /\ wr_completed = <<>>
    /\ wr_calls = [t \in Writers |-> 0]
    /\ OldIdle
    /\ JournalIdle
    /\ CancelIdle
    /\ BuyIdle
    /\ StartupIdle

\* Thread t calls save_trade_signal; its arguments pass the validation of
\* lines 65-72 and it arrives at `with file_lock:`.
BeginSave(t) ==
    /\ wr_pc[t] = "idle"
    /\ wr_calls[t] < MaxWriterCalls
    /\ wr_calls' = [wr_calls EXCEPT ![t] = @ + 1]
    /\ wr_pc' = [wr_pc EXCEPT ![t] = "waiting"]
    /\ UNCHANGED <<wr_lock, wr_seen, wr_buffer, wr_file, wr_completed>>
    /\ UNCHANGED <<old_vars, journal_vars, cancel_vars, buy_vars, startup_vars>>

\* with file_lock:
AcquireLock(t) ==
    /\ wr_pc[t] = "waiting"
    /\ LockFree(wr_lock)
    /\ wr_lock' = t
    /\ wr_pc' = [wr_pc EXCEPT ![t] = "locked"]
    /\ UNCHANGED <<wr_seen, wr_buffer, wr_file, wr_completed, wr_calls>>
    /\ UNCHANGED <<old_vars, journal_vars, cancel_vars, buy_vars, startup_vars>>

\* file_exists = os.path.isfile(signal_file)
CheckExists(t) ==
    /\ wr_pc[t] = "locked"
    /\ wr_seen' = [wr_seen EXCEPT ![t] = wr_file.exists]
    /\ wr_pc' = [wr_pc EXCEPT ![t] = "checked"]
    /\ UNCHANGED <<wr_lock, wr_buffer, wr_file, wr_completed, wr_calls>>
    /\ UNCHANGED <<old_vars, journal_vars, cancel_vars, buy_vars, startup_vars>>

\* open(signal_file, mode='a', newline=''): it creates the file when it is
\* missing...
OpenFile(t) ==
    /\ wr_pc[t] = "checked"
    /\ wr_file' = [wr_file EXCEPT !.exists = TRUE]
    /\ wr_buffer' = [wr_buffer EXCEPT ![t] = <<>>]
    /\ wr_pc' = [wr_pc EXCEPT ![t] = "opened"]
    /\ UNCHANGED <<wr_lock, wr_seen, wr_completed, wr_calls>>
    /\ UNCHANGED <<old_vars, journal_vars, cancel_vars, buy_vars, startup_vars>>

\* ... or raises OSError: the with block releases the lock and the call
\* raises (lines 89-91).
OpenFails(t) ==
    /\ wr_pc[t] = "checked"
    /\ wr_lock' = 0
    /\ wr_pc' = [wr_pc EXCEPT ![t] = "idle"]
    /\ UNCHANGED <<wr_seen, wr_buffer, wr_file, wr_completed, wr_calls>>
    /\ UNCHANGED <<old_vars, journal_vars, cancel_vars, buy_vars, startup_vars>>

\* writer.writerow(header) if not file_exists; writer.writerow(row): both go
\* to the buffer of the file object.
WriteRows(t) ==
    /\ wr_pc[t] = "opened"
    /\ wr_buffer' = [wr_buffer EXCEPT ![t] =
                        IF wr_seen[t] THEN <<WriterRow(t, wr_calls[t])>>
                        ELSE <<HeaderLine, WriterRow(t, wr_calls[t])>>]
    /\ wr_pc' = [wr_pc EXCEPT ![t] = "written"]
    /\ UNCHANGED <<wr_lock, wr_seen, wr_file, wr_completed, wr_calls>>
    /\ UNCHANGED <<old_vars, journal_vars, cancel_vars, buy_vars, startup_vars>>

\* The end of `with open(...)`: the buffer is written at the end of the file.
CloseFile(t) ==
    /\ wr_pc[t] = "written"
    /\ wr_file' = [wr_file EXCEPT !.lines = @ \o wr_buffer[t]]
    /\ wr_buffer' = [wr_buffer EXCEPT ![t] = <<>>]
    /\ wr_pc' = [wr_pc EXCEPT ![t] = "closed"]
    /\ UNCHANGED <<wr_lock, wr_seen, wr_completed, wr_calls>>
    /\ UNCHANGED <<old_vars, journal_vars, cancel_vars, buy_vars, startup_vars>>

\* The end of `with file_lock:`; the call returns.
ReleaseLock(t) ==
    /\ wr_pc[t] = "closed"
    /\ wr_lock' = 0
    /\ wr_completed' = Append(wr_completed, WriterRow(t, wr_calls[t]))
    /\ wr_pc' = [wr_pc EXCEPT ![t] = "idle"]
    /\ UNCHANGED <<wr_seen, wr_buffer, wr_file, wr_calls>>
    /\ UNCHANGED <<old_vars, journal_vars, cancel_vars, buy_vars, startup_vars>>

NextWriters ==
    \E t \in Writers :
        \/ BeginSave(t)
        \/ AcquireLock(t)
        \/ CheckExists(t)
        \/ OpenFile(t)
        \/ OpenFails(t)
        \/ WriteRows(t)
        \/ CloseFile(t)
        \/ ReleaseLock(t)

SpecWriters == InitWriters /\ [][NextWriters]_vars

\* The rows of the calls whose file is closed: those that returned, then the
\* one of the thread that has closed its file and not yet returned.
RowsWritten ==
    wr_completed \o
        (IF \E t \in Writers : wr_pc[t] = "closed"
         THEN LET t == CHOOSE u \in Writers : wr_pc[u] = "closed"
              IN  <<WriterRow(t, wr_calls[t])>>
         ELSE <<>>)

\* C23: at most one thread is between the file-existence check and the end of
\* its write, and the journal is one header row followed by one row for
\* every call that wrote, in the order in which they wrote.
C23_WritersSerialized ==
    /\ Cardinality({t \in Writers : wr_pc[t] \in InsideLock}) <= 1
    /\ wr_file.lines = IF RowsWritten = <<>> THEN <<>>
                       ELSE <<HeaderLine>> \o RowsWritten

\* Both threads have written, one waited for the lock while the other held
\* it, and the journal holds the header and their rows.
C23_Witness ==
    /\ Len(wr_completed) = 2
    /\ wr_completed[1] = WriterRow(2, 1)
    /\ wr_completed[2] = WriterRow(1, 1)
    /\ wr_pc[2] = "waiting"
    /\ wr_pc[1] = "checked"
    /\ wr_file.lines = <<HeaderLine, WriterRow(2, 1), WriterRow(1, 1)>>

-----------------------------------------------------------------------------
(* SpecCancel: a shutdown signal while tradebot.py runs,                   *)
(* src/tradebot.py 43-52 (safe_api_call), 199 (the except of               *)
(* execute_buy_order) and 296-299 (the main loop)                          *)
(* The scripts install no signal handler, so the interpreter's defaults    *)
(* apply: SIGINT raises KeyboardInterrupt in the main thread at the point  *)
(* it has reached (a time.sleep in progress is broken off), SIGTERM ends   *)
(* the process at once.  KeyboardInterrupt is not an Exception.            *)

\* Calls of trade() the model follows.
MaxCancelCycles == 2

ShutdownSignals == {"SIGINT", "SIGTERM"}

\* The except clauses an exception raised at this position meets on its way
\* out, innermost first: the one of safe_api_call when it is raised by the
\* wrapped call (the backoff sleep is inside the except clause, not inside
\* the try), then the one of execute_buy_order for the order call.
HandlersAt(position, site) ==
    (IF position = "call" THEN <<"safe_api_call">> ELSE <<>>)
        \o (IF position \in {"call", "backoff"} /\ site = "order"
            THEN <<"execute_buy_order">> ELSE <<>>)

\* The first handler that catches exc, or "none": the traceback ends the process.
CatchingHandler(exc, position, site) ==
    LET handlers == HandlersAt(position, site) IN
    IF handlers # <<>> /\ Caught(exc) THEN handlers[1] ELSE "none"

InitCancel ==
    /\ c_pc = "call"
    /\ c_site = "klines"
    /\ c_i = 0
    /\ c_left = 0
    /\ c_clock = 0
    /\ c_cycles = 1
    /\ c_signal = NoSignal
    /\ c_after = 0
    /\ OldIdle
    /\ JournalIdle
    /\ WritersIdle
    /\ BuyIdle
    /\ StartupIdle

\* What follows a safe_api_call that has returned: after the klines the
\* order call of execute_buy_order, after the order call the end of trade()
\* and time.sleep(60).
AfterCall(site) ==
    IF site = "klines"
    THEN [pc |-> "call", site |-> "order", left |-> 0]
    ELSE [pc |-> "cycle_sleep", site |-> "none", left |-> CycleSleep]

\* The wrapped call raises an exception of the client: except Exception,
\* time.sleep(2 ** i).
AttemptRaises ==
    /\ c_pc = "call"
    /\ \E exc \in ClientExceptions : Caught(exc)
    /\ c_pc' = "backoff"
    /\ c_left' = BackoffDelay(c_i)
    /\ UNCHANGED <<c_site, c_i, c_clock, c_cycles, c_signal, c_after>>
    /\ UNCHANGED <<old_vars, journal_vars, writer_vars, buy_vars, startup_vars>>

\* return func(*args, **kwargs)
AttemptReturns ==
    /\ c_pc = "call"
    /\ c_pc' = AfterCall(c_site).pc
    /\ c_site' = AfterCall(c_site).site
    /\ c_left' = AfterCall(c_site).left
    /\ c_i' = 0
    /\ c_after' = IF c_signal.arrived /\ AfterCall(c_site).pc = "call"
                  THEN c_after + 1 ELSE c_after
    /\ UNCHANGED <<c_clock, c_cycles, c_signal>>
    /\ UNCHANGED <<old_vars, journal_vars, writer_vars, buy_vars, startup_vars>>

\* A second of a time.sleep passes.
SleepTick ==
    /\ c_pc \in {"backoff", "cycle_sleep"}
    /\ c_left > 0
    /\ c_left' = c_left - 1
    /\ c_clock' = c_clock + 1
    /\ UNCHANGED <<c_pc, c_site, c_i, c_cycles, c_signal, c_after>>
    /\ UNCHANGED <<old_vars, journal_vars, writer_vars, buy_vars, startup_vars>>

\* time.sleep(2 ** i) returns: the next iteration of `for i in range(5)`, or
\* after the fifth failure `return None`.
BackoffEnds ==
    /\ c_pc = "backoff"
    /\ c_left = 0
    /\ IF c_i + 1 < RetryLimit
       THEN /\ c_pc' = "call"
            /\ c_i' = c_i + 1
            /\ c_after' = IF c_signal.arrived THEN c_after + 1 ELSE c_after
            /\ UNCHANGED <<c_site, c_left>>
       ELSE \* None from get_historical_data: continue; None from the order
            \* call: logged; either way trade() is over
            /\ c_pc' = "cycle_sleep"
            /\ c_site' = "none"
            /\ c_left' = CycleSleep
            /\ c_i' = 0
            /\ UNCHANGED c_after
    /\ UNCHANGED <<c_clock, c_cycles, c_signal>>
    /\ UNCHANGED <<old_vars, journal_vars, writer_vars, buy_vars, startup_vars>>

\* time.sleep(60) returns: while True calls trade() again.
CycleSleepEnds ==
    /\ c_pc = "cycle_sleep"
    /\ c_left = 0
    /\ c_cycles < MaxCancelCycles
    /\ c_pc' = "call"
    /\ c_site' = "klines"
    /\ c_i' = 0
    /\ c_cycles' = c_cycles + 1
    /\ c_after' = IF c_signal.arrived THEN c_after + 1 ELSE c_after
    /\ UNCHANGED <<c_left, c_clock, c_signal>>
    /\ UNCHANGED <<old_vars, journal_vars, writer_vars, buy_vars, startup_vars>>

\* A shutdown signal arrives. SIGTERM ends the process. SIGINT raises
\* KeyboardInterrupt where the main thread is: uncaught it ends the process;
\* caught by safe_api_call it counts as a failed attempt; caught by
\* execute_buy_order that function returns and trade() goes on.
SignalArrives ==
    /\ ~c_signal.arrived
    /\ c_pc # "exited"
    /\ \E sig \in ShutdownSignals :
         /\ c_signal' = [arrived |-> TRUE, sig |-> sig, at |-> c_clock,
                         during |-> c_pc, left |-> c_left]
         /\ LET handler == IF sig = "SIGTERM" THEN "none"
                           ELSE CatchingHandler("KeyboardInterrupt", c_pc, c_site)
            IN  IF handler = "none"
                THEN /\ c_pc' = "exited"
                     /\ UNCHANGED <<c_site, c_i, c_left>>
                ELSE IF handler = "safe_api_call"
                THEN /\ c_pc' = "backoff"
                     /\ c_left' = BackoffDelay(c_i)
                     /\ UNCHANGED <<c_site, c_i>>
                ELSE /\ c_pc' = "cycle_sleep"
                     /\ c_site' = "none"
                     /\ c_left' = CycleSleep
                     /\ c_i' = 0
    /\ UNCHANGED <<c_clock, c_cycles, c_after>>
    /\ UNCHANGED <<old_vars, journal_vars, writer_vars, buy_vars, startup_vars>>

NextCancel ==
    \/ AttemptRaises
    \/ AttemptReturns
    \/ SleepTick
    \/ BackoffEnds
    \/ CycleSleepEnds
    \/ SignalArrives

SpecCancel == InitCancel /\ [][NextCancel]_vars

\* C24: once a shutdown signal has arrived during a backoff sleep or the
\* inter-cycle sleep, the process has ended at the second of the signal's
\* arrival, and no attempt and no cycle has begun since.
C24_SignalEndsSleep ==
    (c_signal.arrived /\ c_signal.during \in {"backoff", "cycle_sleep"}) =>
        /\ c_pc = "exited"
        /\ c_clock = c_signal.at
        /\ c_after = 0

\* SIGINT arrived three seconds before the end of the third backoff sleep of
\* the order call, in the second cycle.
C24_Witness ==
    /\ c_signal.arrived
    /\ c_signal.sig = "SIGINT"
    /\ c_signal.during = "backoff"
    /\ c_signal.left = 3
    /\ c_site = "order"
    /\ c_i = 2
    /\ c_cycles = 2
    /\ c_pc = "exited"

-----------------------------------------------------------------------------
(* SpecBuy: one call of execute_buy_order,                                 *)
(* src/tradebot.py 144-200 and src/tradebot2.py 194-250 (the same text)    *)

\* What one attempt of client.order_market_buy does: the exchange rejects the
\* request ("rejected": an API exception), it executes the order and the
\* response is lost on the way back ("lost": a connection error), or it
\* executes the order and the response arrives ("filled").
OrderAttemptKinds == {"rejected", "lost", "filled"}

\* The first three attempts differ, the later ones repeat the third.
OrderAttemptSeqs ==
    {kinds \in [1..BehaviourLen -> OrderAttemptKinds] :
        \A j \in 4..BehaviourLen : kinds[j] = kinds[3]}

\* The behaviour of the wrapped call safe_api_call sees.
OrderBehaviour(kinds) ==
    [j \in 1..BehaviourLen |->
        IF kinds[j] = "filled" THEN Returns(OrderResponse)
        ELSE IF kinds[j] = "lost" THEN Raises("ConnectionError")
        ELSE Raises("BinanceAPIException")]

\* The orders the exchange has executed after the first `attempts` attempts.
Executions(kinds, attempts) ==
    Cardinality({j \in 1..attempts : kinds[j] # "rejected"})

\* The answers to client.get_asset_balance(asset="USDT"): more than, exactly
\* and less than usdt_amount, at once or after failed attempts, no 'free'
\* entry, and no answer on any attempt.
BuyBalances ==
    {FailThen(0, Balance(50 * Scale)), FailThen(0, Balance(usdt_amount)),
     FailThen(0, Balance(usdt_amount - 1)), FailThen(2, Balance(10 * Scale)),
     FailThen(0, None), FailThen(0, EmptyDict), FailThen(RetryLimit, None)}

BuyTickers == {Returns(Ticker(p)) : p \in SpecPrices} \cup {Raises("BinanceAPIException")}

InitBuy ==
    /\ buy_in \in [variant : {"tradebot", "tradebot2"},
                   balance : BuyBalances,
                   ticker : BuyTickers,
                   info : InfoAnswers \cup InfoFailures,
                   kinds : OrderAttemptSeqs]
    /\ buy_out = NotBought
    /\ OldIdle
    /\ JournalIdle
    /\ WritersIdle
    /\ CancelIdle
    /\ StartupIdle

\* execute_buy_order(symbol, usdt_amount), called outside the cooldown.
ExecuteBuy ==
    /\ ~buy_out.done
    /\ \E w \in {execute_buy_order(World(StartTime, <<>>, NoFile),
                                   [s \in SymbolSet |-> 0], symbols[1], usdt_amount,
                                   [balance |-> buy_in.balance, ticker |-> buy_in.ticker,
                                    info |-> buy_in.info,
                                    order |-> OrderBehaviour(buy_in.kinds)])} :
         buy_out' = [done |-> TRUE, submitted |-> w.submitted, raised |-> w.raised,
                     elapsed |-> w.now - StartTime,
                     executions |->
                        IF w.submitted = <<>> THEN 0
                        ELSE Executions(buy_in.kinds, w.submitted[1].attempts)]
    /\ UNCHANGED buy_in
    /\ UNCHANGED <<old_vars, journal_vars, writer_vars, cancel_vars, startup_vars>>

NextBuy == ExecuteBuy

SpecBuy == InitBuy /\ [][NextBuy]_vars

\* The balance query is answered on attempt k, with less than usdt_amount free.
ShortOfFundsAt(k) ==
    /\ \A j \in 1..(k - 1) : buy_in.balance[j].raises
    /\ ~buy_in.balance[k].raises
    /\ HasFree(buy_in.balance[k].value)
    /\ IF HasFree(buy_in.balance[k].value)
       THEN buy_in.balance[k].value.free < usdt_amount
       ELSE FALSE

\* C25: when the free USDT balance is below usdt_amount, or the balance
\* query fails on all 5 attempts, execute_buy_order calls order_market_buy
\* not at all, asks for the balance no further time, and returns.
C25_InsufficientBalanceSkipsBuy ==
    buy_out.done =>
        /\ \A k \in 1..RetryLimit :
              ShortOfFundsAt(k) =>
                  /\ buy_out.submitted = <<>>
                  /\ buy_out.executions = 0
                  /\ ~buy_out.raised
                  /\ buy_out.elapsed = 2 ^ (k - 1) - 1
        /\ (\A j \in 1..RetryLimit : buy_in.balance[j].raises) =>
              /\ buy_out.submitted = <<>>
              /\ buy_out.executions = 0
              /\ ~buy_out.raised
              /\ buy_out.elapsed = 2 ^ RetryLimit - 1

\* A balance of one thousandth less than usdt_amount, with an exchange that
\* would have filled the order: no order call.
C25_Witness ==
    /\ buy_out.done
    /\ buy_in.balance = FailThen(0, Balance(usdt_amount - 1))
    /\ buy_in.kinds[1] = "filled"
    /\ ~buy_in.ticker.raises
    /\ buy_in.info \in InfoAnswers
    /\ buy_out.submitted = <<>>
    /\ ~buy_out.raised

\* C28: the exchange executes at most one buy order for one call of
\* execute_buy_order.
C28_AtMostOneAcceptedBuy ==
    buy_out.done => buy_out.executions <= 1

-----------------------------------------------------------------------------
(* SpecStartup: the module-level code of the three scripts,                *)
(* src/tradebot.py 22-29, src/tradebot2.py 31-38, src/tradebot_2.py 6-14   *)

\* Calls of trade() the model follows after the start-up.
MaxStartupCycles == 2

\* os.getenv(name): None when the variable is unset, else its text; the
\* empty text is falsy.
EnvText(s) == [kind |-> IF s = "" THEN "empty" ELSE "str", s |-> s]
EnvValues == {None, EnvText(""), EnvText("key-a"), EnvText("key-b")}

\* A check that looks for unset variables only (not the code's).
CredentialsUnset(api_key, api_secret) ==
    api_key.kind = "None" \/ api_secret.kind = "None"
\* if not api_key or not api_secret:
CredentialsMissing(api_key, api_secret) ==
    ~Truthy(api_key) \/ ~Truthy(api_secret)

InitStartup ==
    /\ st_in \in [script : {"tradebot", "tradebot2", "tradebot_2"},
                  api_key : EnvValues,
                  api_secret : EnvValues,
                  \* what Client(api_key, api_secret) does: the constructor
                  \* of python-binance pings the exchange
                  client : {"ok", "raise"}]
    /\ st_pc = "start"
    /\ st_log = NoStartupLog
    /\ OldIdle
    /\ JournalIdle
    /\ WritersIdle
    /\ CancelIdle
    /\ BuyIdle

\* tradebot.py 22-29 / tradebot2.py 31-38: the keys are read and checked,
\* exit(1) when one is missing, else the client is created.
\* tradebot_2.py 7: os.getenv with no `import os` raises NameError, and the
\* traceback ends the process with status 1 whatever the environment holds.
ModuleStartup ==
    /\ st_pc = "start"
    /\ IF st_in.script = "tradebot_2"
       THEN /\ st_pc' = "exited"
            /\ st_log' = [st_log EXCEPT !.exit_status = 1]
       ELSE IF CredentialsMissing(st_in.api_key, st_in.api_secret)
       THEN /\ st_pc' = "exited"
            /\ st_log' = [st_log EXCEPT !.exit_status = 1]
       ELSE IF st_in.client = "raise"
       THEN /\ st_pc' = "exited"
            /\ st_log' = [st_log EXCEPT !.exit_status = 1, !.api_calls = @ + 1]
       ELSE /\ st_pc' = "client"
            /\ st_log' = [st_log EXCEPT !.clients = @ + 1, !.api_calls = @ + 1]
    /\ UNCHANGED st_in
    /\ UNCHANGED <<old_vars, journal_vars, writer_vars, cancel_vars, buy_vars>>

\* if __name__ == "__main__": while True: trade()
StartTrading ==
    /\ st_pc = "client"
    /\ st_pc' = "trading"
    /\ st_log' = [st_log EXCEPT !.cycles = @ + 1, !.api_calls = @ + 1]
    /\ UNCHANGED st_in
    /\ UNCHANGED <<old_vars, journal_vars, writer_vars, cancel_vars, buy_vars>>

\* time.sleep(60); trade()
NextTradingCycle ==
    /\ st_pc = "trading"
    /\ st_log.cycles < MaxStartupCycles
    /\ st_log' = [st_log EXCEPT !.cycles = @ + 1, !.api_calls = @ + 1]
    /\ UNCHANGED <<st_in, st_pc>>
    /\ UNCHANGED <<old_vars, journal_vars, writer_vars, cancel_vars, buy_vars>>

NextStartup == ModuleStartup \/ StartTrading \/ NextTradingCycle

SpecStartup == InitStartup /\ [][NextStartup]_vars

\* C26: with BINANCE_API_KEY or BINANCE_API_SECRET unset or empty, the
\* process creates no client, makes no API call and runs no cycle, and once
\* its start-up code has run it has exited with a nonzero status.
C26_MissingCredentialsFatal ==
    ( \/ st_in.api_key \in {None, EnvText("")}
      \/ st_in.api_secret \in {None, EnvText("")} ) =>
        /\ st_log.clients = 0
        /\ st_log.api_calls = 0
        /\ st_log.cycles = 0
        /\ st_pc \in {"start", "exited"}
        /\ st_pc = "exited" => st_log.exit_status # 0

\* tradebot2.py started with a key and an empty secret has exited with status 1.
C26_Witness ==
    /\ st_in.script = "tradebot2"
    /\ st_in.api_key = EnvText("key-a")
    /\ st_in.api_secret = EnvText("")
    /\ st_in.client = "ok"
    /\ st_pc = "exited"
    /\ st_log.exit_status = 1

-----------------------------------------------------------------------------
(* Properties of the main loop (Spec), continued *)

\* C27: an iteration whose get_historical_data returned None calls no order
\* function, writes nothing to the journal, leaves last_buy_time and
\* symbol_precision_cache as they were, and trade() goes on to the next symbol.
C27_FetchFailureSkipsSymbol ==
    [][ (pc = "trade" /\ idx <= Len(symbols) /\ last_failure' = "fetch")
          => /\ submitted' = <<>>
             /\ signal_file' = signal_file
             /\ last_buy_time' = last_buy_time
             /\ symbol_precision_cache' = symbol_precision_cache
             /\ buy_cycle_starts' = buy_cycle_starts
             /\ pc' = "trade"
             /\ idx' = idx + 1 ]_vars

\* The fetch for the first symbol of the second cycle failed on all five
\* attempts (31 seconds of backoff), after an order for it in the first cycle.
C27_Witness ==
    /\ last_failure = "fetch"
    /\ cycle = 2
    /\ idx = 2
    /\ pc = "trade"
    /\ now - cycle_start = 31
    /\ symbols[1] \in DOMAIN symbol_precision_cache
    /\ submitted = <<>>

-----------------------------------------------------------------------------
(* Properties of the buy quantity (SpecQuant) and of safe_api_call         *)
(* (SpecRetry), continued                                                  *)

\* C29: the quantity execute_buy_order computes costs no more than the
\* amount: quantity * price <= usdt_amount, for every step size.
C29_QuantityWithinAmount ==
    q_out.computed => q_out.quantity * q_in.price <= q_in.amount * Scale

\* The wrapped call raises on attempts 1 to k - 1 and returns on attempt k.
FirstReturnAt(k) ==
    /\ \A j \in 1..(k - 1) : call_behaviour[j].raises
    /\ ~call_behaviour[k].raises

\* C30: when the wrapped call raises on attempts 1..k-1 and returns v on
\* attempt k (k in 1..5), safe_api_call has invoked it k times, has slept
\* after each of the k - 1 failures and not after the success, and returns
\* v, whatever v is.
C30_StopsAtFirstReturn ==
    call_result.attempts > 0 =>
        \A k \in 1..RetryLimit :
            FirstReturnAt(k) =>
                /\ call_result.attempts = k
                /\ Len(call_result.sleeps) = k - 1
                /\ \A j \in 1..(k - 1) : call_result.sleeps[j] = 2 ^ (j - 1)
                /\ ~call_result.raised
                /\ call_result.result = call_behaviour[k].value

\* Two failures, then None on the third attempt, although the fourth
\* attempt would have returned an order: three invocations, sleeps of 1 and
\* 2 seconds, None returned.
C30_Witness ==
    /\ FirstReturnAt(3)
    /\ call_behaviour[3] = Returns(None)
    /\ call_behaviour[4] = Returns(OrderResponse)
    /\ call_result.attempts = 3
    /\ call_result.sleeps = <<1, 2>>
    /\ call_result.result = None

-----------------------------------------------------------------------------
(* Mutual exclusion of the signals, checked on SpecIndicators *)

\* The orders of one iteration hold a call of the given side.
HasSide(orders, side) == \E k \in 1..Len(orders) : orders[k].side = side

\* C31: on the data frame of one symbol in one cycle the buy signal and the
\* sell signal are never both true, and the iteration of trade() on it
\* submits no buy order together with a sell order.
C31_SignalsMutuallyExclusive ==
    ind_out.evaluated =>
        /\ ~(ind_out.buy /\ ind_out.sell)
        /\ ~(HasSide(ind_out.orders, "BUY") /\ HasSide(ind_out.orders, "SELL"))

\* A falling series with the bands defined gives the buy signal alone, and
\* the iteration submits a buy order and no sell order.
C31_Witness ==
    /\ ind_out.evaluated
    /\ ~ind_out.df.lower_band.nan
    /\ ind_out.buy
    /\ ~ind_out.sell
    /\ HasSide(ind_out.orders, "BUY")
    /\ ~HasSide(ind_out.orders, "SELL")

-----------------------------------------------------------------------------
(* Progress of the trading loop: src/tradebot.py 281-299,                  *)
(* src/tradebot2.py 332-356                                                *)

\* One environment of each kind: the fetch fails, nothing is traded, a buy
\* and a sell go through, the computation of the sell quantity does not
\* return, the journal file cannot be opened, the plot cannot be saved.
LiveEnvs ==
    LET buy == [QuietEnv EXCEPT !.klines = FailThen(0, SpecSnapshots.buy)]
        sell == [QuietEnv EXCEPT !.klines = FailThen(0, SpecSnapshots.sell)]
    IN  {[QuietEnv EXCEPT !.klines = FailThen(RetryLimit, None)],
         QuietEnv, buy, sell,
         [sell EXCEPT !.pow = "hang"],
         [buy EXCEPT !.journal = "OSError"],
         [QuietEnv EXCEPT !.plot = "raise"]}

\* One iteration of the for loop of trade(), as TradeSymbol, in one of the
\* environments above.
TradeSymbolLive ==
    /\ pc = "trade"
    /\ idx <= Len(symbols)
    /\ StepsDone < MaxSteps
    /\ \E env \in LiveEnvs :
         \E w \in {trade_symbol(World(now, symbol_precision_cache, signal_file),
                                variant, last_buy_time, symbols[idx], env)} :
             /\ now' = w.now
             /\ symbol_precision_cache' = w.cache
             /\ signal_file' = w.file
             /\ submitted' = w.submitted
             /\ buy_cycle_starts' =
                  IF \E k \in 1..Len(w.submitted) : w.submitted[k].side = "BUY"
                  THEN [buy_cycle_starts EXCEPT ![symbols[idx]] = @ \cup {cycle_start}]
                  ELSE buy_cycle_starts
             /\ last_failure' = w.failure
             /\ info_log' = InfoLog(symbols[idx],
                                    symbols[idx] \in DOMAIN symbol_precision_cache,
                                    w.info_calls, w.info_exhausted,
                                    IF w.info_exhausted
                                    THEN info_log.gave_up \cup {symbols[idx]}
                                    ELSE info_log.gave_up)
             /\ pc' = IF w.hung THEN "hung"
                      ELSE IF w.raised THEN "terminated"
                      ELSE "trade"
             /\ idx' = IF w.hung \/ w.raised THEN idx ELSE idx + 1
    /\ UNCHANGED <<variant, cycle, cycle_start, last_buy_time>>
    /\ UNCHANGED <<retry_vars, quant_vars, bot_vars, unit_vars>>

NextLive == TradeSymbolLive \/ FinishCycle \/ NextCycle

\* The interpreter goes on to the next statement and every external call
\* returns or raises, so a step of the loop that can be taken is taken.
SpecLive ==
    /\ Init
    /\ [][NextLive]_vars
    /\ WF_vars(TradeSymbolLive)
    /\ WF_vars(FinishCycle)
    /\ WF_vars(NextCycle)

\* C32: the first call of trade() comes to its end, the main loop sleeps and
\* the second call of trade() begins.
C32_CycleCompletes ==
    (pc = "trade" /\ cycle = 1) ~> (pc = "trade" /\ cycle = 2 /\ idx = 1)

-----------------------------------------------------------------------------
(* SpecSave: save_trade_signal applied to every combination of arguments,  *)
(* src/tradebot2.py 52-91                                                  *)

\* The exception that leaves save_trade_signal: ValueError from the
\* validation at lines 65-67, which comes before the file is touched, the
\* OSError of open() at line 78, or "none".
save_trade_signal_exception(symbol, signal_type, price, timestamp, write) ==
    IF ~(symbol # "" /\ signal_type # "" /\ price.v # 0 /\ Truthy(timestamp))
    THEN "ValueError"
    ELSE IF write # "ok" THEN "OSError"
    ELSE "none"

\* The arguments: empty and non-empty strings, the prices 0.0 and 0.35, None
\* and a bar time.
SaveSymbols == {"", symbols[1]}
SaveSignalTypes == {"", "BUY", "SELL"}
SavePrices == {Num(0), Num(350)}
SaveTimestamps == {None, Timestamp(BarOpenTime(StartTime))}

\* The journal before the call: absent, or holding the header and one record.
SaveFiles ==
    {NoFile,
     [exists |-> TRUE,
      lines |-> <<HeaderLine,
                  RowLine(Timestamp(BarOpenTime(StartTime)), symbols[2], "SELL",
                          Num(350))>>]}

InitSave ==
    /\ save_in \in [symbol : SaveSymbols, signal_type : SaveSignalTypes,
                    price : SavePrices, timestamp : SaveTimestamps,
                    file : SaveFiles, write : {"ok", "OSError"}]
    /\ save_out = NotSaved
    /\ LoopIdle /\ RetryIdle /\ QuantIdle /\ BotIdle
    /\ SellIdle /\ SigIdle /\ IndIdle
    /\ JournalIdle /\ WritersIdle /\ CancelIdle /\ BuyIdle /\ StartupIdle

\* save_trade_signal(symbol, signal_type, price, timestamp)
CallSave ==
    /\ ~save_out.done
    /\ \E w \in {save_trade_signal(World(StartTime, <<>>, save_in.file),
                                   save_in.symbol, save_in.signal_type,
                                   save_in.price, save_in.timestamp,
                                   save_in.write)} :
         save_out' =
            [done |-> TRUE, raised |-> w.raised, file |-> w.file,
             exc |-> save_trade_signal_exception(save_in.symbol,
                                                 save_in.signal_type,
                                                 save_in.price,
                                                 save_in.timestamp,
                                                 save_in.write)]
    /\ UNCHANGED save_in
    /\ UNCHANGED <<loop_vars, retry_vars, quant_vars, bot_vars, sell_vars,
                   sig_vars, ind_vars, journal_vars, writer_vars, cancel_vars,
                   buy_vars, startup_vars>>

NextSave == CallSave

SpecSave == InitSave /\ [][NextSave]_vars

\* One of the four arguments is empty, None or 0.
FalsyArgument(in) ==
    \/ in.symbol = ""
    \/ in.signal_type = ""
    \/ in.price.v = 0
    \/ ~Truthy(in.timestamp)

\* C33: a call of save_trade_signal with an empty or falsy argument (price 0
\* included) raises ValueError and leaves the journal file as it was: not
\* created, no header, no record.
C33_IncompleteInputNotWritten ==
    (save_out.done /\ FalsyArgument(save_in)) =>
        /\ save_out.raised
        /\ save_out.exc = "ValueError"
        /\ save_out.file = save_in.file

\* A call with price 0 and everything else in order, the journal absent and
\* the file system working: ValueError, and still no file.
C33_Witness ==
    /\ save_out.done
    /\ save_in.symbol = symbols[1]
    /\ save_in.signal_type = "BUY"
    /\ save_in.price = Num(0)
    /\ Truthy(save_in.timestamp)
    /\ save_in.write = "ok"
    /\ save_in.file = NoFile
    /\ save_out.raised
    /\ save_out.file = NoFile

-----------------------------------------------------------------------------
(* symbol_precision_cache over the cycles of the trading loop (Spec)       *)

\* The entry get_symbol_precision writes for a LOT_SIZE filter.
CacheEntry(info) == [min_qty |-> info.minQty, step_size |-> info.stepSize]

\* Lookups that give no filter: no answer after five attempts, None at once,
\* or a symbol info without a LOT_SIZE filter.
FailingLookups == InfoFailures \cup {FailThen(0, None)}

\* C34: every entry of symbol_precision_cache is the (min_qty, step_size)
\* pair of a LOT_SIZE filter the exchange returned for a configured symbol;
\* an entry once written is neither replaced nor removed; the cache changes
\* only by gaining the entry of the symbol whose lookup was answered; and a
\* lookup that fails or finds no LOT_SIZE filter returns (None, None) and
\* leaves the cache as it was.
C34_CacheHoldsSuccessfulLookups ==
    /\ [](\A s \in DOMAIN symbol_precision_cache :
             /\ s \in SymbolSet
             /\ \E info \in SpecLotSizes : symbol_precision_cache[s] = CacheEntry(info))
    /\ [][ \A s \in DOMAIN symbol_precision_cache :
             /\ s \in DOMAIN symbol_precision_cache'
             /\ symbol_precision_cache'[s] = symbol_precision_cache[s] ]_vars
    /\ [][ symbol_precision_cache' # symbol_precision_cache
             => /\ info_log'.calls >= 1
                /\ ~info_log'.exhausted
                /\ DOMAIN symbol_precision_cache'
                     = DOMAIN symbol_precision_cache \cup {info_log'.symbol} ]_vars
    /\ [](\A s \in SymbolSet \ DOMAIN symbol_precision_cache :
             \A b \in FailingLookups :
                \E r \in {get_symbol_precision(symbol_precision_cache, s, b)} :
                    ~r.found /\ r.cache = symbol_precision_cache)

\* In the second cycle the first symbol is handled again with its entry of
\* the first cycle in place and an order is submitted for it, while the
\* second symbol has no entry.
C34_Witness ==
    /\ cycle = 2
    /\ idx = 2
    /\ info_log.symbol = symbols[1]
    /\ info_log.cached_before
    /\ symbols[1] \in DOMAIN symbol_precision_cache
    /\ symbol_precision_cache[symbols[1]] = CacheEntry(SymbolInfo(1000, 1000))
    /\ symbols[2] \notin DOMAIN symbol_precision_cache
    /\ submitted # <<>>

====
